---- MODULE Spec2Model ----
(***************************************************************************)
(* A model of the ARNGLL data-link core: the MAC frame codec               *)
(* (arngll/src/frame_info.rs), the HDLC framing filters                    *)
(* (quick-dsp/src/filter/hdlc.rs, iter.rs) and the MAC receive filter      *)
(* (arngll/src/mac.rs).                                                    *)
(*                                                                         *)
(* Conventions.  An octet is a number in 0..255, a byte slice is a         *)
(* sequence of octets.  Option<T> is a sequence of length 0 (None) or 1    *)
(* (Some).  A Result is a record with a "status" field, which is "Ok",     *)
(* "Err" or "Panic" (the call unwound).                                    *)
(***************************************************************************)
EXTENDS Integers, Sequences, FiniteSets, TLC

(***************************************************************************)
(* Bounds of the model.                                                    *)
(***************************************************************************)
\* longest raw inbound buffer drawn octet by octet from RawOctets
MaxRawLen == 6
\* how many octets Truncate may cut from a serialised frame
MaxCut == 3

(***************************************************************************)
(* Octet arithmetic.                                                       *)
(***************************************************************************)
\* bit k of x (x & (1 << k)) != 0
Bit(x, k) == (x \div (2 ^ k)) % 2 = 1

\* (x >> lo) & (2^n - 1)
Bits(x, lo, n) == (x \div (2 ^ lo)) % (2 ^ n)

\* u8::from(bool)
u8_from_bool(b) == IF b THEN 1 ELSE 0

RECURSIVE Xor(_, _)
\* bitwise exclusive or of two naturals
Xor(a, b) ==
    IF a = 0 THEN b
    ELSE IF b = 0 THEN a
    ELSE ((a + b) % 2) + 2 * Xor(a \div 2, b \div 2)

\* u16::to_be_bytes
u16_to_be_bytes(x) == << (x \div 256) % 256, x % 256 >>

\* u16::to_le_bytes
u16_to_le_bytes(x) == << x % 256, (x \div 256) % 256 >>

\* A u32 is held as the pair of its 16-bit halves << high, low >>.
\* u32::to_be_bytes
u32_to_be_bytes(x) == u16_to_be_bytes(x[1]) \o u16_to_be_bytes(x[2])

\* u32::from_be_bytes
u32_from_be_bytes(b) == << b[1] * 256 + b[2], b[3] * 256 + b[4] >>

\* n zero octets
Zeros(n) == [i \in 1..n |-> 0]

(***************************************************************************)
(* CRC-16/IBM-SDLC (X.25): reflected polynomial 0x8408, initial value      *)
(* 0xFFFF, final xor 0xFFFF.                                               *)
(***************************************************************************)
RECURSIVE crc_shift(_, _)
\* k shift steps of the reflected CRC register
crc_shift(reg, k) ==
    IF k = 0 THEN reg
    ELSE crc_shift(IF reg % 2 = 1 THEN Xor(reg \div 2, 33800) ELSE reg \div 2, k - 1)

\* the byte-wise lookup table of the reflected CRC
CrcTable == [i \in 0..255 |-> crc_shift(i, 8)]

\* bit k of the exclusive or of a and b, in place
XorBit(a, b, k) == (((a \div (2 ^ k)) + (b \div (2 ^ k))) % 2) * (2 ^ k)

\* bitwise exclusive or of two octets
Xor8(a, b) ==
    XorBit(a, b, 0) + XorBit(a, b, 1) + XorBit(a, b, 2) + XorBit(a, b, 3)
    + XorBit(a, b, 4) + XorBit(a, b, 5) + XorBit(a, b, 6) + XorBit(a, b, 7)

\* Digest::update(&[byte]) on the running register:
\* table[(reg ^ byte) & 0xFF] ^ (reg >> 8)
Digest_update(reg, byte) ==
    LET entry == CrcTable[Xor8(reg % 256, byte)]
    IN  (entry \div 256) * 256 + Xor8(entry % 256, reg \div 256)

RECURSIVE Digest_fold(_, _, _, _)
\* Digest::update(bytes[lo..hi]) on the running register: the octets in order,
\* the first half and then the second; the singleton set binds the register
\* between the halves
Digest_fold(reg, bytes, lo, hi) ==
    IF lo > hi THEN reg
    ELSE IF lo = hi THEN Digest_update(reg, bytes[lo])
    ELSE LET mid == (lo + hi) \div 2
         IN  CHOOSE r \in { Digest_fold(left, bytes, mid + 1, hi) :
                              left \in { Digest_fold(reg, bytes, lo, mid) } } : TRUE

\* X25.digest() ... finalize(): the checksum of bytes, the register started at
\* 0xFFFF and xored with 0xFFFF at the end
X25(bytes) ==
    CHOOSE crc \in { 65535 - Digest_fold(65535, octets, 1, Len(octets)) :
                       octets \in { bytes } } : TRUE

(***************************************************************************)
(* HamAddr: eight octets, four big-endian chunks.                          *)
(***************************************************************************)
HamAddr_EMPTY == << 0, 0, 0, 0, 0, 0, 0, 0 >>

HamAddr_BROADCAST == << 255, 255, 0, 0, 0, 0, 0, 0 >>

\* HamAddr::chunk, i in 0..3
HamAddr_chunk(a, i) == a[2 * i + 1] * 256 + a[2 * i + 2]

\* HamAddr::len stopping at the first zero chunk
HamAddr_len_first_zero(a) ==
    IF HamAddr_chunk(a, 1) = 0 THEN 2
    ELSE IF HamAddr_chunk(a, 2) = 0 THEN 4
    ELSE IF HamAddr_chunk(a, 3) = 0 THEN 6
    ELSE 8

\* HamAddr::len
HamAddr_len(a) ==
    IF HamAddr_chunk(a, 3) # 0 THEN 8
    ELSE IF HamAddr_chunk(a, 2) # 0 THEN 6
    ELSE IF HamAddr_chunk(a, 1) # 0 THEN 4
    ELSE 2

\* HamAddr::as_trimmed_slice
HamAddr_as_trimmed_slice(a) == SubSeq(a, 1, HamAddr_len(a))

\* HamAddr::trimmed_bytes: the octets of the trimmed slice, by value
HamAddr_trimmed_bytes(a) == HamAddr_as_trimmed_slice(a)

\* HamAddr::try_from_slice
HamAddr_try_from_slice(bytes) ==
    IF Len(bytes) % 2 = 1 \/ Len(bytes) > 8
    THEN [status |-> "Err", addr |-> HamAddr_EMPTY]
    ELSE [status |-> "Ok", addr |-> bytes \o Zeros(8 - Len(bytes))]

\* HamAddr::is_empty
HamAddr_is_empty(a) ==
    /\ HamAddr_chunk(a, 0) = 0
    /\ HamAddr_chunk(a, 1) = 0
    /\ HamAddr_chunk(a, 2) = 0
    /\ HamAddr_chunk(a, 3) = 0

\* HamAddr::is_broadcast
HamAddr_is_broadcast(a) ==
    /\ HamAddr_chunk(a, 0) = 65535
    /\ HamAddr_chunk(a, 1) = 0
    /\ HamAddr_chunk(a, 2) = 0
    /\ HamAddr_chunk(a, 3) = 0

\* a higher chunk test that lets the multicast range through
HamAddr_bad_chunk_low_only(c) == c # 0 /\ c < 1600

\* a higher chunk that makes a callsign-range address Reserved
HamAddr_bad_chunk(c) == c # 0 /\ (c < 1600 \/ c >= 64000)

\* HamAddr::get_type
HamAddr_get_type(a) ==
    IF HamAddr_is_empty(a) THEN "Empty"
    ELSE IF HamAddr_chunk(a, 0) < 1600
    THEN (IF HamAddr_len(a) = 2 THEN "Short" ELSE "Reserved")
    ELSE IF HamAddr_chunk(a, 0) < 64000
    THEN (IF \/ HamAddr_bad_chunk(HamAddr_chunk(a, 1))
             \/ HamAddr_bad_chunk(HamAddr_chunk(a, 2))
             \/ HamAddr_bad_chunk(HamAddr_chunk(a, 3))
          THEN "Reserved" ELSE "Callsign")
    ELSE IF HamAddr_is_broadcast(a) THEN "Broadcast"
    ELSE IF a[1] = 250 THEN "Ipv6Multicast"
    ELSE IF a[1] = 251 THEN "Ipv4Multicast"
    ELSE "Reserved"

\* is_multicast that counts the broadcast address as multicast
HamAddr_is_multicast_or_broadcast(a) ==
    HamAddr_get_type(a) \in {"Ipv4Multicast", "Ipv6Multicast", "Broadcast"}

\* HamAddr::is_multicast
HamAddr_is_multicast(a) ==
    HamAddr_get_type(a) \in {"Ipv4Multicast", "Ipv6Multicast"}

(***************************************************************************)
(* ARNCE characters: a string is a sequence of Unicode code points, a      *)
(* HamChar is its index 0..39 in the alphabet.                             *)
(***************************************************************************)
\* HamChar::NUL
HamChar_NUL == 0

\* HamChar::ESC
HamChar_ESC == 39

\* the symbol that to_char renders NUL as, U+2400
ALT_NUL == 9216

\* HamChar::from_ascii_byte without the lower-case arm
HamChar_from_ascii_byte_upper_only(c) ==
    IF c = 0 THEN << HamChar_NUL >>
    ELSE IF c >= 65 /\ c <= 90 THEN << c - 65 + 1 >>
    ELSE IF c >= 48 /\ c <= 57 THEN << c - 48 + 27 >>
    ELSE IF c = 47 THEN << 37 >>
    ELSE IF c = 45 THEN << 38 >>
    ELSE IF c = 94 THEN << HamChar_ESC >>
    ELSE << >>

\* HamChar::from_ascii_byte: Some(HamChar) or None
HamChar_from_ascii_byte(c) ==
    IF c = 0 THEN << HamChar_NUL >>
    ELSE IF c >= 65 /\ c <= 90 THEN << c - 65 + 1 >>
    ELSE IF c >= 97 /\ c <= 122 THEN << c - 97 + 1 >>
    ELSE IF c >= 48 /\ c <= 57 THEN << c - 48 + 27 >>
    ELSE IF c = 47 THEN << 37 >>
    ELSE IF c = 45 THEN << 38 >>
    ELSE IF c = 94 THEN << HamChar_ESC >>
    ELSE << >>

\* HamChar::from_char
HamChar_from_char(c) == IF c < 128 THEN HamChar_from_ascii_byte(c) ELSE << >>

\* the table CHARS of HamChar::to_ascii_byte
CHARS ==
    << 0 >> \o [i \in 1..26 |-> 64 + i] \o [i \in 1..10 |-> 47 + i] \o << 47, 45, 94 >>

\* HamChar::to_ascii_byte
HamChar_to_ascii_byte(h) == CHARS[h + 1]

\* HamChar::to_char
HamChar_to_char(h) == IF h = HamChar_NUL THEN ALT_NUL ELSE HamChar_to_ascii_byte(h)

\* From<HamCharChunk> for u16
HamCharChunk_to_u16(chunk) == chunk[1] * 1600 + chunk[2] * 40 + chunk[3]

\* TryFrom<u16> for HamCharChunk
HamCharChunk_try_from_u16(chunk) ==
    IF chunk = 0 \/ (chunk >= 1600 /\ chunk <= 63999)
    THEN [status |-> "Ok",
          chunk |-> << (chunk \div 1600) % 40, (chunk \div 40) % 40, chunk % 40 >>]
    ELSE [status |-> "Err", chunk |-> << 0, 0, 0 >>]

\* TryFrom<[char; 3]> for HamCharChunk
HamCharChunk_try_from_chars(chunk) ==
    IF \E i \in 1..3 : HamChar_from_char(chunk[i]) = << >>
    THEN [status |-> "Err", chunk |-> << 0, 0, 0 >>]
    ELSE [status |-> "Ok", chunk |-> [i \in 1..3 |-> HamChar_from_char(chunk[i])[1]]]

\* Display for HamCharChunk, not alternate
HamCharChunk_Display(chunk) ==
    IF chunk[3] # HamChar_NUL
    THEN << HamChar_to_char(chunk[1]), HamChar_to_char(chunk[2]), HamChar_to_char(chunk[3]) >>
    ELSE IF chunk[2] # HamChar_NUL
    THEN << HamChar_to_char(chunk[1]), HamChar_to_char(chunk[2]) >>
    ELSE IF chunk[1] # HamChar_NUL
    THEN << HamChar_to_char(chunk[1]) >>
    ELSE << >>

\* the length in bytes of the UTF-8 encoding of one character
len_utf8(c) == IF c < 128 THEN 1 ELSE IF c < 2048 THEN 2 ELSE IF c < 65536 THEN 3 ELSE 4

\* str::len: the length in bytes
RECURSIVE str_len(_)
str_len(s) == IF s = << >> THEN 0 ELSE len_utf8(Head(s)) + str_len(Tail(s))

\* the strings "~FFFF" and "~ffff"
STR_BROADCAST_UPPER == << 126, 70, 70, 70, 70 >>

STR_BROADCAST_LOWER == << 126, 102, 102, 102, 102 >>

\* HamAddr::chunks
HamAddr_chunks(a) == [i \in 1..4 |-> HamAddr_chunk(a, i - 1)]

\* HamAddr::from_chunks
HamAddr_from_chunks(chunks) ==
    u16_to_be_bytes(chunks[1]) \o u16_to_be_bytes(chunks[2])
        \o u16_to_be_bytes(chunks[3]) \o u16_to_be_bytes(chunks[4])

\* StrChunkIterator::next: item is None, Some(Ok(u16)) or Some(Err), rest is
\* what the character iterator still holds
StrChunkIterator_next(chars) ==
    IF chars = << >> THEN [item |-> << >>, rest |-> << >>]
    ELSE LET c0 == chars[1]
             c1 == IF Len(chars) >= 2 THEN chars[2] ELSE 0
             c2 == IF Len(chars) >= 3 THEN chars[3] ELSE 0
             chunk == HamCharChunk_try_from_chars(<< c0, c1, c2 >>)
         IN  [item |-> << [status |-> chunk.status,
                           value |-> HamCharChunk_to_u16(chunk.chunk)] >>,
              rest |-> SubSeq(chars, 4, Len(chars))]

\* HamAddr::try_from_callsign
HamAddr_try_from_callsign(callsign) ==
    IF callsign = << >> \/ callsign[1] = 126
    THEN IF str_len(callsign) <= 1 THEN [status |-> "Ok", addr |-> HamAddr_EMPTY]
         ELSE IF callsign = STR_BROADCAST_UPPER \/ callsign = STR_BROADCAST_LOWER
         THEN [status |-> "Ok", addr |-> HamAddr_BROADCAST]
         ELSE [status |-> "Err", addr |-> HamAddr_EMPTY]
    ELSE LET n1 == StrChunkIterator_next(callsign)
             n2 == StrChunkIterator_next(n1.rest)
             n3 == StrChunkIterator_next(n2.rest)
             n4 == StrChunkIterator_next(n3.rest)
             n5 == StrChunkIterator_next(n4.rest)
             failed(n) == n.item # << >> /\ n.item[1].status = "Err"
             chunk_of(n) == IF n.item = << >> THEN 0 ELSE n.item[1].value
         IN  IF failed(n1) \/ failed(n2) \/ failed(n3) \/ failed(n4)
             THEN [status |-> "Err", addr |-> HamAddr_EMPTY]
             ELSE IF n5.item # << >>
             THEN [status |-> "Err", addr |-> HamAddr_EMPTY]
             ELSE [status |-> "Ok",
                   addr |-> HamAddr_from_chunks(
                                << chunk_of(n1), chunk_of(n2), chunk_of(n3), chunk_of(n4) >>)]

\* one hexadecimal digit, upper case
hex_upper(d) == IF d < 10 THEN 48 + d ELSE 55 + d

\* one hexadecimal digit, lower case
hex_lower(d) == IF d < 10 THEN 48 + d ELSE 87 + d

\* "{:04X?}" of a u16
fmt_04X(x) ==
    << hex_upper((x \div 4096) % 16), hex_upper((x \div 256) % 16),
       hex_upper((x \div 16) % 16), hex_upper(x % 16) >>

\* Debug for HamAddr, not alternate
HamAddr_Debug(a) ==
    IF HamAddr_len(a) >= 8
    THEN fmt_04X(HamAddr_chunk(a, 0)) \o << 45 >> \o fmt_04X(HamAddr_chunk(a, 1))
             \o << 45 >> \o fmt_04X(HamAddr_chunk(a, 2)) \o << 45 >>
             \o fmt_04X(HamAddr_chunk(a, 3))
    ELSE IF HamAddr_len(a) >= 6
    THEN fmt_04X(HamAddr_chunk(a, 0)) \o << 45 >> \o fmt_04X(HamAddr_chunk(a, 1))
             \o << 45 >> \o fmt_04X(HamAddr_chunk(a, 2))
    ELSE IF HamAddr_len(a) >= 4
    THEN fmt_04X(HamAddr_chunk(a, 0)) \o << 45 >> \o fmt_04X(HamAddr_chunk(a, 1))
    ELSE fmt_04X(HamAddr_chunk(a, 0))

\* Display for HamAddr: the text, or a panic of the unwrap
HamAddr_Display(a) ==
    LET type == HamAddr_get_type(a)
        decoded(i) == HamCharChunk_try_from_u16(HamAddr_chunk(a, i))
    IN  IF type = "Empty" THEN [status |-> "Ok", text |-> << 126 >>]
        ELSE IF type = "Callsign"
        THEN IF \E i \in 0..3 : decoded(i).status = "Err"
             THEN [status |-> "Panic", text |-> << >>]
             ELSE [status |-> "Ok",
                   text |-> HamCharChunk_Display(decoded(0).chunk)
                                \o HamCharChunk_Display(decoded(1).chunk)
                                \o HamCharChunk_Display(decoded(2).chunk)
                                \o HamCharChunk_Display(decoded(3).chunk)]
        ELSE [status |-> "Ok", text |-> << 126 >> \o HamAddr_Debug(a)]

(***************************************************************************)
(* EUI-48 and EUI-64.                                                      *)
(***************************************************************************)
Eui48_EMPTY == << 0, 0, 0, 0, 0, 0 >>

Eui48_BROADCAST == << 255, 255, 255, 255, 255, 255 >>

Eui64_EMPTY == << 0, 0, 0, 0, 0, 0, 0, 0 >>

Eui64_BROADCAST == << 255, 255, 255, 255, 255, 255, 255, 255 >>

\* "{:02x}" of a u8
fmt_02x(x) == << hex_lower((x \div 16) % 16), hex_lower(x % 16) >>

\* Display for Eui48
Eui48_Display(bs) ==
    fmt_02x(bs[1]) \o << 58 >> \o fmt_02x(bs[2]) \o << 58 >> \o fmt_02x(bs[3])
        \o << 58 >> \o fmt_02x(bs[4]) \o << 58 >> \o fmt_02x(bs[5]) \o << 58 >>
        \o fmt_02x(bs[6])

\* Display for Eui64
Eui64_Display(bs) ==
    fmt_02x(bs[1]) \o << 58 >> \o fmt_02x(bs[2]) \o << 58 >> \o fmt_02x(bs[3])
        \o << 58 >> \o fmt_02x(bs[4]) \o << 58 >> \o fmt_02x(bs[5]) \o << 58 >>
        \o fmt_02x(bs[6]) \o << 58 >> \o fmt_02x(bs[7]) \o << 58 >> \o fmt_02x(bs[8])

\* slice::rotate_right
rotate_right(s, k) == SubSeq(s, Len(s) - k + 1, Len(s)) \o SubSeq(s, 1, Len(s) - k)

\* slice::rotate_left
rotate_left(s, k) == SubSeq(s, k + 1, Len(s)) \o SubSeq(s, 1, k)

\* is_small without the test of the low bits of chunk 2
is_small_chunk3_only(value) == HamAddr_chunk(value, 3) = 0

\* is_small: the address can be rendered as an EUI-48
is_small(value) == HamAddr_chunk(value, 3) = 0 /\ HamAddr_chunk(value, 2) % 8 = 0

\* (b & 0b1111_1000) | 0b0010
eui_first_byte(b) == (b - (b % 8)) + 2

\* TryFrom<HamAddr> for Eui64 without the test of the last octet
Eui64_try_from_unchecked(value) ==
    LET type == HamAddr_get_type(value)
    IN  IF type = "Empty" THEN [status |-> "Ok", eui |-> Eui64_EMPTY]
        ELSE IF type = "Broadcast" THEN [status |-> "Ok", eui |-> Eui64_BROADCAST]
        ELSE IF type = "Callsign"
        THEN IF FALSE THEN [status |-> "Err", eui |-> Eui64_EMPTY]
             ELSE LET at == IF is_small(value) THEN 6 ELSE 8
                      first_byte == value[at]
                      taken == [value EXCEPT ![at] = 0]
                      rotated == rotate_right(taken, 1)
                      bytes == [rotated EXCEPT ![1] = eui_first_byte(first_byte)]
                      moved == SubSeq(bytes, 1, 3) \o rotate_right(SubSeq(bytes, 4, 8), 2)
                  IN  IF is_small(value)
                      THEN [status |-> "Ok",
                            eui |-> [moved EXCEPT ![4] = 255, ![5] = 254]]
                      ELSE [status |-> "Ok", eui |-> bytes]
        ELSE [status |-> "Err", eui |-> Eui64_EMPTY]

\* TryFrom<HamAddr> for Eui64
Eui64_try_from(value) ==
    LET type == HamAddr_get_type(value)
    IN  IF type = "Empty" THEN [status |-> "Ok", eui |-> Eui64_EMPTY]
        ELSE IF type = "Broadcast" THEN [status |-> "Ok", eui |-> Eui64_BROADCAST]
        ELSE IF type = "Callsign"
        THEN IF value[8] % 8 # 0 THEN [status |-> "Err", eui |-> Eui64_EMPTY]
             ELSE LET at == IF is_small(value) THEN 6 ELSE 8
                      first_byte == value[at]
                      taken == [value EXCEPT ![at] = 0]
                      rotated == rotate_right(taken, 1)
                      bytes == [rotated EXCEPT ![1] = eui_first_byte(first_byte)]
                      moved == SubSeq(bytes, 1, 3) \o rotate_right(SubSeq(bytes, 4, 8), 2)
                  IN  IF is_small(value)
                      THEN [status |-> "Ok",
                            eui |-> [moved EXCEPT ![4] = 255, ![5] = 254]]
                      ELSE [status |-> "Ok", eui |-> bytes]
        ELSE [status |-> "Err", eui |-> Eui64_EMPTY]

\* TryFrom<HamAddr> for Eui48
Eui48_try_from(value) ==
    LET type == HamAddr_get_type(value)
    IN  IF type = "Empty" THEN [status |-> "Ok", eui |-> Eui48_EMPTY]
        ELSE IF type = "Broadcast" THEN [status |-> "Ok", eui |-> Eui48_BROADCAST]
        ELSE IF type = "Callsign"
        THEN IF ~is_small(value) THEN [status |-> "Err", eui |-> Eui48_EMPTY]
             ELSE LET rotated == rotate_right(SubSeq(value, 1, 6), 1)
                  IN  [status |-> "Ok",
                       eui |-> [rotated EXCEPT ![1] = eui_first_byte(rotated[1])]]
        ELSE IF type = "Ipv4Multicast"
        THEN [status |-> "Ok", eui |-> << 1, 0, 94, value[4], value[3], value[2] >>]
        ELSE IF type = "Ipv6Multicast"
        THEN [status |-> "Ok",
              eui |-> << 204, 204, value[5], value[4], value[3], value[2] >>]
        ELSE [status |-> "Err", eui |-> Eui48_EMPTY]

\* From<&Eui48> for Eui64 with FF FF for FF FE
Eui64_from_eui48_ff_ff(eui48) ==
    SubSeq(eui48, 1, 3) \o << 255, 255 >> \o SubSeq(eui48, 4, 6)

\* From<&Eui48> for Eui64
Eui64_from_eui48(eui48) ==
    SubSeq(eui48, 1, 3) \o << 255, 254 >> \o SubSeq(eui48, 4, 6)

\* Eui64::try_to_eui48: the Option<Eui48>
Eui64_try_to_eui48(this) ==
    IF this[4] = 255 /\ this[5] = 254
    THEN << SubSeq(this, 1, 3) \o SubSeq(this, 6, 8) >>
    ELSE << >>

\* TryFrom<Eui48> for HamAddr keeping the order of the multicast octets
HamAddr_try_from_eui48_unreversed(value) ==
    IF value = Eui48_EMPTY THEN [status |-> "Ok", addr |-> HamAddr_EMPTY]
    ELSE IF value = Eui48_BROADCAST THEN [status |-> "Ok", addr |-> HamAddr_BROADCAST]
    ELSE IF SubSeq(value, 1, 3) = << 1, 0, 94 >>
    THEN HamAddr_try_from_slice(<< 251, value[4], value[5], value[6] >>)
    ELSE IF SubSeq(value, 1, 2) = << 204, 204 >>
    THEN HamAddr_try_from_slice(<< 250, value[3], value[4], value[5], value[6], 0 >>)
    ELSE IF value[1] % 8 = 2
    THEN LET octets == rotate_left([value EXCEPT ![1] = value[1] - 2], 1)
             ret == octets \o << 0, 0 >>
         IN  IF HamAddr_get_type(ret) = "Callsign"
             THEN [status |-> "Ok", addr |-> ret]
             ELSE [status |-> "Err", addr |-> HamAddr_EMPTY]
    ELSE [status |-> "Err", addr |-> HamAddr_EMPTY]

\* TryFrom<Eui48> for HamAddr
HamAddr_try_from_eui48(value) ==
    IF value = Eui48_EMPTY THEN [status |-> "Ok", addr |-> HamAddr_EMPTY]
    ELSE IF value = Eui48_BROADCAST THEN [status |-> "Ok", addr |-> HamAddr_BROADCAST]
    ELSE IF SubSeq(value, 1, 3) = << 1, 0, 94 >>
    THEN HamAddr_try_from_slice(<< 251, value[6], value[5], value[4] >>)
    ELSE IF SubSeq(value, 1, 2) = << 204, 204 >>
    THEN HamAddr_try_from_slice(<< 250, value[6], value[5], value[4], value[3], 0 >>)
    ELSE IF value[1] % 8 = 2
    THEN LET octets == rotate_left([value EXCEPT ![1] = value[1] - 2], 1)
             ret == octets \o << 0, 0 >>
         IN  IF HamAddr_get_type(ret) = "Callsign"
             THEN [status |-> "Ok", addr |-> ret]
             ELSE [status |-> "Err", addr |-> HamAddr_EMPTY]
    ELSE [status |-> "Err", addr |-> HamAddr_EMPTY]

\* TryFrom<Eui64> for HamAddr
HamAddr_try_from_eui64(value) ==
    IF value = Eui64_EMPTY THEN [status |-> "Ok", addr |-> HamAddr_EMPTY]
    ELSE IF value = Eui64_BROADCAST THEN [status |-> "Ok", addr |-> HamAddr_BROADCAST]
    ELSE IF value[1] % 8 = 2
    THEN LET bytes == [value EXCEPT ![1] = value[1] - 2]
             tail == rotate_left(SubSeq(bytes, 4, 8), 2)
             short == SubSeq(bytes, 1, 3) \o SubSeq(tail, 1, 3)
             ret == IF bytes[4] = 255 /\ bytes[5] = 254
                    THEN rotate_left(short, 1) \o << 0, 0 >>
                    ELSE rotate_left(bytes, 1)
         IN  IF HamAddr_get_type(ret) = "Callsign"
             THEN [status |-> "Ok", addr |-> ret]
             ELSE [status |-> "Err", addr |-> HamAddr_EMPTY]
    ELSE [status |-> "Err", addr |-> HamAddr_EMPTY]

(***************************************************************************)
(* NRZI: a zero is a transition, a one is no transition.                   *)
(***************************************************************************)
\* NrziEncode::new: the field last
NrziEncode_new == FALSE

\* NrziDecode::new with the line taken to idle high
NrziDecode_new_high == TRUE

\* NrziDecode::new: the field last
NrziDecode_new == FALSE

\* NrziEncode::filter: the new last and the output
NrziEncode_filter(last, sample) ==
    LET next == IF sample = FALSE THEN ~last ELSE last
    IN  [last |-> next, out |-> next]

\* NrziDecode::filter: the new last and the output
NrziDecode_filter(last, sample) ==
    IF sample # last THEN [last |-> sample, out |-> FALSE]
    ELSE [last |-> last, out |-> TRUE]

\* Chain::filter of an encoder chained into a decoder
Chain_filter(encode, decode, sample) ==
    LET a == NrziEncode_filter(encode, sample)
        b == NrziDecode_filter(decode, a.out)
    IN  [encode |-> a.last, decode |-> b.last, out |-> b.out]

(***************************************************************************)
(* CrcAppendIter: Running(iter, digest), Finishing(last_byte), Finished.   *)
(***************************************************************************)
\* Crc::digest: the register of a fresh digest
Crc_digest == 65535

\* Digest::finalize
Digest_finalize(reg) == 65535 - reg

\* CrcAppendIter::new
CrcAppendIter_new(iter) ==
    [tag |-> "Running", iter |-> iter, digest |-> Crc_digest, last_byte |-> 0]

\* the iterator left behind by the swap with Finished
CrcAppendIter_Finished ==
    [tag |-> "Finished", iter |-> << >>, digest |-> 0, last_byte |-> 0]

\* CrcAppendIter::next with the bytes of the CRC in big-endian order
CrcAppendIter_next_be(this) ==
    IF this.tag = "Running"
    THEN IF this.iter # << >>
         THEN [self |-> [this EXCEPT !.iter = Tail(this.iter),
                                     !.digest = Digest_update(this.digest, Head(this.iter))],
               item |-> << Head(this.iter) >>]
         ELSE LET crc == u16_to_be_bytes(Digest_finalize(this.digest))
              IN  [self |-> [CrcAppendIter_Finished EXCEPT !.tag = "Finishing",
                                                           !.last_byte = crc[2]],
                   item |-> << crc[1] >>]
    ELSE IF this.tag = "Finishing"
    THEN [self |-> CrcAppendIter_Finished, item |-> << this.last_byte >>]
    ELSE [self |-> CrcAppendIter_Finished, item |-> << >>]

\* CrcAppendIter::next: the iterator afterwards and the item, Some(byte) or None
CrcAppendIter_next(this) ==
    IF this.tag = "Running"
    THEN IF this.iter # << >>
         THEN [self |-> [this EXCEPT !.iter = Tail(this.iter),
                                     !.digest = Digest_update(this.digest, Head(this.iter))],
               item |-> << Head(this.iter) >>]
         ELSE LET crc == u16_to_le_bytes(Digest_finalize(this.digest))
              IN  [self |-> [CrcAppendIter_Finished EXCEPT !.tag = "Finishing",
                                                           !.last_byte = crc[2]],
                   item |-> << crc[1] >>]
    ELSE IF this.tag = "Finishing"
    THEN [self |-> CrcAppendIter_Finished, item |-> << this.last_byte >>]
    ELSE [self |-> CrcAppendIter_Finished, item |-> << >>]

(***************************************************************************)
(* Frame codec enumerations.                                               *)
(***************************************************************************)
VERSION_EXPERIMENTAL == 0

VERSION_1 == 1

\* FrameType::try_from_u8 on a two-bit value
FrameType_try_from_u8(x) ==
    CASE x = 0 -> "Beacon"
      [] x = 1 -> "Data"
      [] x = 2 -> "Ack"
      [] x = 3 -> "MacCommand"

\* FrameType::to_u8
FrameType_to_u8(t) ==
    CASE t = "Beacon" -> 0
      [] t = "Data" -> 1
      [] t = "Ack" -> 2
      [] t = "MacCommand" -> 3

\* MicLen::try_from_u8: Option<MicLen>
MicLen_try_from_u8(x) ==
    CASE x = 0 -> << "Mic32" >>
      [] x = 1 -> << "Mic64" >>
      [] x = 2 -> << "Mic96" >>
      [] x = 3 -> << "Mic128" >>
      [] OTHER -> << >>

\* MicLen::to_u8
MicLen_to_u8(l) ==
    CASE l = "Mic32" -> 0
      [] l = "Mic64" -> 1
      [] l = "Mic96" -> 2
      [] l = "Mic128" -> 3

\* MicLen::len
MicLen_len(l) ==
    CASE l = "Mic32" -> 4
      [] l = "Mic64" -> 8
      [] l = "Mic96" -> 12
      [] l = "Mic128" -> 16

\* Mic::EMPTY
Mic_EMPTY == [len |-> "Mic32", code |-> Zeros(16)]

\* Mic::len
Mic_len(m) == MicLen_len(m.len)

\* Mic::bytes (and Mic::as_slice)
Mic_bytes(m) == SubSeq(m.code, 1, Mic_len(m))

\* Mic::try_from_slice
Mic_try_from_slice(slice) ==
    IF Len(slice) < 4 THEN [status |-> "Err", mic |-> Mic_EMPTY]
    ELSE LET mic_len == MicLen_try_from_u8((Len(slice) \div 4) - 1)
         IN  IF mic_len = << >>
             THEN [status |-> "Err", mic |-> Mic_EMPTY]
             ELSE IF Len(slice) > 16
             THEN [status |-> "Panic", mic |-> Mic_EMPTY]
             ELSE [status |-> "Ok",
                   mic |-> [len |-> mic_len[1],
                            code |-> slice \o Zeros(16 - Len(slice))]]

\* KeyIdentMode::try_from_u8 on a two-bit value
KeyIdentMode_try_from_u8(x) ==
    CASE x = 0 -> "Addresses"
      [] x = 1 -> "KeyIndex"
      [] x = 2 -> "Reserved2"
      [] x = 3 -> "Reserved3"

\* KeyIdentMode::to_u8
KeyIdentMode_to_u8(k) ==
    CASE k = "Addresses" -> 0
      [] k = "KeyIndex" -> 1
      [] k = "Reserved2" -> 2
      [] k = "Reserved3" -> 3

(***************************************************************************)
(* SecInfo.                                                                *)
(***************************************************************************)
\* SecInfo::scf
SecInfo_scf(s) ==
    u8_from_bool(s.enc) * 128 + MicLen_to_u8(s.mic.len) * 32 + KeyIdentMode_to_u8(s.kim) * 8

\* SecInfo::bytes
SecInfo_bytes(s) == << SecInfo_scf(s) >> \o u32_to_be_bytes(s.fcntr) \o s.kid

\* the octets SecInfo::from_iter takes from the iterator (5, or 6 with a key index)
SecInfo_wire_len(scf) ==
    IF KeyIdentMode_try_from_u8(Bits(scf, 3, 2)) = "KeyIndex" THEN 6 ELSE 5

\* SecInfo::from_iter on the octets left in the iterator; every next() is unwrapped
SecInfo_from_iter(rest) ==
    IF rest = << >> THEN [status |-> "Panic"]
    ELSE LET scf == rest[1]
             enc == Bit(scf, 7)
             miclen == MicLen_try_from_u8(Bits(scf, 5, 2))[1]
             kim == KeyIdentMode_try_from_u8(Bits(scf, 3, 2))
         IN  IF Len(rest) < SecInfo_wire_len(scf) THEN [status |-> "Panic"]
             ELSE [status |-> "Ok",
                   sec_info |-> [enc |-> enc,
                                 kim |-> kim,
                                 fcntr |-> u32_from_be_bytes(SubSeq(rest, 2, 5)),
                                 kid |-> IF kim = "KeyIndex" THEN << rest[6] >> ELSE << >>,
                                 mic |-> [len |-> miclen, code |-> Mic_EMPTY.code]]]

(***************************************************************************)
(* FrameInfo.                                                              *)
(***************************************************************************)
FrameInfo_EMPTY ==
    [frame_type |-> "Data",
     ack_requested |-> FALSE,
     is_from_relay |-> FALSE,
     network_id |-> << >>,
     dst_addr |-> HamAddr_EMPTY,
     src_addr |-> HamAddr_EMPTY,
     rly_addr |-> << >>,
     sec_info |-> << >>,
     ack_crc |-> 0]

\* FrameInfo::fcf_msb
fcf_msb(f) ==
    VERSION_EXPERIMENTAL * 64
    + FrameType_to_u8(f.frame_type) * 16
    + ((HamAddr_len(f.dst_addr) \div 2) - 1) * 4
    + ((HamAddr_len(f.src_addr) \div 2) - 1)

\* fcf_lsb with is_from_relay shifted onto the has_rly_addr bit
fcf_lsb_relay_bit_slip(f) ==
    IF f.frame_type # "Ack"
    THEN << u8_from_bool(f.sec_info # << >>) * 128
            + u8_from_bool(f.network_id # << >>) * 64
            + u8_from_bool(f.ack_requested) * 32
            + u8_from_bool(f.rly_addr # << >>) * 16
            + u8_from_bool(f.is_from_relay) * 16
            + (((IF f.rly_addr # << >> THEN HamAddr_len(f.rly_addr[1]) ELSE 2) \div 2) - 1) >>
    ELSE << >>

\* FrameInfo::fcf_lsb: Option<u8>
fcf_lsb(f) ==
    IF f.frame_type # "Ack"
    THEN << u8_from_bool(f.sec_info # << >>) * 128
            + u8_from_bool(f.network_id # << >>) * 64
            + u8_from_bool(f.ack_requested) * 32
            + u8_from_bool(f.rly_addr # << >>) * 16
            + u8_from_bool(f.is_from_relay) * 8
            + (((IF f.rly_addr # << >> THEN HamAddr_len(f.rly_addr[1]) ELSE 2) \div 2) - 1) >>
    ELSE << >>

\* bytes_with_payload without its assertion
bytes_with_payload_unasserted(f, payload) == FALSE

\* the assert!(payload.is_empty()) of bytes_with_payload fails
bytes_with_payload_panics(f, payload) == f.frame_type = "Ack" /\ payload # << >>

\* FrameInfo::bytes_with_payload, collected
bytes_with_payload(f, payload) ==
    LET notAck == f.frame_type # "Ack"
        dst_addr == IF notAck THEN << f.dst_addr >> ELSE << >>
        network_id == IF notAck THEN f.network_id ELSE << >>
        rly_addr == IF notAck THEN f.rly_addr ELSE << >>
        sec_info == IF notAck THEN f.sec_info ELSE << >>
        ack_crc == IF notAck THEN << >> ELSE << f.ack_crc >>
    IN  << fcf_msb(f) >>
        \o fcf_lsb(f)
        \o (IF network_id # << >> THEN u16_to_be_bytes(network_id[1]) ELSE << >>)
        \o (IF dst_addr # << >> THEN HamAddr_trimmed_bytes(dst_addr[1]) ELSE << >>)
        \o HamAddr_trimmed_bytes(f.src_addr)
        \o (IF rly_addr # << >> THEN HamAddr_trimmed_bytes(rly_addr[1]) ELSE << >>)
        \o (IF sec_info # << >> THEN SecInfo_bytes(sec_info[1]) ELSE << >>)
        \o (IF ack_crc # << >> THEN u16_to_be_bytes(ack_crc[1]) ELSE << >>)
        \o payload
        \o (IF sec_info # << >> THEN Mic_bytes(sec_info[1].mic) ELSE << >>)

\* a failed try_from_bytes: status "Err" (returned) or "Panic" (unwound)
ParseFail(status, why) ==
    [status |-> status, why |-> why, frame_info |-> FrameInfo_EMPTY, payload |-> << >>]

\* FrameInfo::try_from_bytes; pN is the index of the next octet of the iterator
try_from_bytes(frame) ==
    IF Len(frame) < 5 THEN ParseFail("Err", "Frame too small")
    ELSE
    LET n == Len(frame)
        fcb_msb == frame[1]
        ver == fcb_msb \div 64
        dst_len == (Bits(fcb_msb, 2, 2) + 1) * 2
        frame_type == FrameType_try_from_u8(Bits(fcb_msb, 4, 2))
        notAck == frame_type # "Ack"
        lsb == IF notAck THEN frame[2] ELSE 0
        has_security_header == notAck /\ Bit(lsb, 7)
        has_netid == notAck /\ Bit(lsb, 6)
        ack_requested == notAck /\ Bit(lsb, 5)
        has_rly_addr == notAck /\ Bit(lsb, 4)
        is_from_relay == notAck /\ Bit(lsb, 3)
        rly_len == IF notAck THEN (Bits(lsb, 0, 2) + 1) * 2 ELSE 0
        has_dst_addr == notAck
        p1 == IF notAck THEN 3 ELSE 2
        network_id == IF has_netid THEN << frame[p1] * 256 + frame[p1 + 1] >> ELSE << >>
        p2 == IF has_netid THEN p1 + 2 ELSE p1
        dst == IF has_dst_addr
               THEN HamAddr_try_from_slice(SubSeq(frame, p2, p2 + dst_len - 1))
               ELSE [status |-> "Ok", addr |-> HamAddr_EMPTY]
        p3 == IF has_dst_addr THEN p2 + dst_len ELSE p2
        src_len == (Bits(fcb_msb, 0, 2) + 1) * 2
        src == HamAddr_try_from_slice(SubSeq(frame, p3, p3 + src_len - 1))
        p4 == p3 + src_len
        rly == IF has_rly_addr
               THEN HamAddr_try_from_slice(SubSeq(frame, p4, p4 + rly_len - 1))
               ELSE [status |-> "Ok", addr |-> HamAddr_EMPTY]
        p5 == IF has_rly_addr THEN p4 + rly_len ELSE p4
        isAck == frame_type = "Ack"
        ack_crc == IF isAck THEN frame[p5] * 256 + frame[p5 + 1] ELSE 0
        p6 == IF isAck THEN p5 + 2 ELSE p5
        rest == SubSeq(frame, p6, n)
        sec == SecInfo_from_iter(rest)
        p7 == p6 + SecInfo_wire_len(rest[1])
        payload_and_mic == SubSeq(frame, p7, n)
        mic_len == Mic_len(sec.sec_info.mic)
        split == Len(payload_and_mic) - mic_len
        mic == Mic_try_from_slice(SubSeq(payload_and_mic, split + 1, Len(payload_and_mic)))
    IN  IF ver # VERSION_EXPERIMENTAL /\ ver # VERSION_1
        THEN ParseFail("Err", "Unexpected version")
        ELSE IF has_netid /\ p1 + 1 > n
        THEN ParseFail("Panic", "network id unwrap")
        ELSE IF has_dst_addr /\ p2 + dst_len - 1 > n
        THEN ParseFail("Panic", "dst_addr slice out of range")
        ELSE IF dst.status # "Ok"
        THEN ParseFail("Err", "Invalid slice length")
        ELSE IF p3 + src_len - 1 > n
        THEN ParseFail("Panic", "src_addr slice out of range")
        ELSE IF src.status # "Ok"
        THEN ParseFail("Err", "Invalid slice length")
        ELSE IF has_rly_addr /\ p4 + rly_len - 1 > n
        THEN ParseFail("Panic", "rly_addr slice out of range")
        ELSE IF rly.status # "Ok"
        THEN ParseFail("Err", "Invalid slice length")
        ELSE IF isAck /\ p5 + 1 > n
        THEN ParseFail("Panic", "ack_crc unwrap")
        ELSE IF ~has_security_header
        THEN [status |-> "Ok",
              why |-> "",
              frame_info |-> [frame_type |-> frame_type,
                              ack_requested |-> ack_requested,
                              is_from_relay |-> is_from_relay,
                              network_id |-> network_id,
                              dst_addr |-> dst.addr,
                              src_addr |-> src.addr,
                              rly_addr |-> IF has_rly_addr THEN << rly.addr >> ELSE << >>,
                              sec_info |-> << >>,
                              ack_crc |-> ack_crc],
              payload |-> rest]
        ELSE IF sec.status # "Ok"
        THEN ParseFail("Panic", "security header unwrap")
        ELSE IF split < 0
        THEN ParseFail("Panic", "MIC longer than the rest of the frame")
        ELSE IF mic.status # "Ok"
        THEN ParseFail("Panic", "Bad MIC size unwrap")
        ELSE [status |-> "Ok",
              why |-> "",
              frame_info |-> [frame_type |-> frame_type,
                              ack_requested |-> ack_requested,
                              is_from_relay |-> is_from_relay,
                              network_id |-> network_id,
                              dst_addr |-> dst.addr,
                              src_addr |-> src.addr,
                              rly_addr |-> IF has_rly_addr THEN << rly.addr >> ELSE << >>,
                              sec_info |-> << [sec.sec_info EXCEPT !.mic = mic.mic] >>,
                              ack_crc |-> ack_crc],
              payload |-> SubSeq(payload_and_mic, 1, split)]

\* ack_calc answering from the relay address whenever the frame carries one
ack_calc_any_relay(f, payload) ==
    IF f.ack_requested
    THEN LET ack_sender == IF f.rly_addr # << >> THEN f.rly_addr[1] ELSE f.dst_addr
         IN  << << X25(bytes_with_payload(f, payload)), ack_sender >> >>
    ELSE << >>

\* FrameInfo::ack_calc: Option<(u16, HamAddr)>
ack_calc(f, payload) ==
    IF f.ack_requested
    THEN LET ack_sender == IF f.rly_addr # << >> /\ f.is_from_relay
                           THEN f.rly_addr[1]
                           ELSE f.dst_addr
         IN  << << X25(bytes_with_payload(f, payload)), ack_sender >> >>
    ELSE << >>

\* FrameInfo::generate_ack_frame: Option<FrameInfo>
generate_ack_frame(f, payload) ==
    LET calc == ack_calc(f, payload)
    IN  IF calc # << >>
        THEN << [FrameInfo_EMPTY EXCEPT !.frame_type = "Ack",
                                        !.src_addr = calc[1][2],
                                        !.ack_crc = calc[1][1]] >>
        ELSE << >>

\* FrameInfo::to_vec
to_vec(f, payload) == bytes_with_payload(f, payload)

\* IteratorExt::append_crc on a byte sequence, collected
append_crc(bytes) == bytes \o u16_to_le_bytes(X25(bytes))

(***************************************************************************)
(* Bit iterators and HDLC framing (quick-dsp/src/filter/iter.rs, hdlc.rs). *)
(* An iterator or filter step returns the item it yields and its new       *)
(* state.                                                                  *)
(***************************************************************************)
\* IteratorExt::bits_lsb over the octets iter
bits_lsb(iter) == [iter |-> iter, byte |-> 0, bit |-> 0]

\* MsbIterator::next
MsbIterator_next(it) ==
    IF it.bit = 0 /\ it.iter = << >>
    THEN [item |-> << >>, self |-> it]
    ELSE LET byte == IF it.bit = 0 THEN Head(it.iter) ELSE it.byte
             iter == IF it.bit = 0 THEN Tail(it.iter) ELSE it.iter
             bit == (IF it.bit = 0 THEN 8 ELSE it.bit) - 1
         IN  [item |-> << Bit(byte, bit) >>,
              self |-> [iter |-> iter, byte |-> byte, bit |-> bit]]

\* LsbIterator::next
LsbIterator_next(it) ==
    IF it.bit = 0 /\ it.iter = << >>
    THEN [item |-> << >>, self |-> it]
    ELSE LET byte == IF it.bit = 0 THEN Head(it.iter) ELSE it.byte
             iter == IF it.bit = 0 THEN Tail(it.iter) ELSE it.iter
             bit == (IF it.bit = 0 THEN 8 ELSE it.bit) - 1
         IN  [item |-> << Bit(byte, 7 - bit) >>,
              self |-> [iter |-> iter, byte |-> byte, bit |-> bit]]

\* HdlcEncoderIter::new, and IteratorExt::hdlc_encode
hdlc_encode(inner) == [state |-> "Prelude", inner |-> inner, index |-> 0, ones |-> 0]

\* the bit of the marker 01111110 at position index
MarkerBit(index) == (index % 8) \notin {0, 7}

\* the Prelude arm with one marker fewer
HdlcEncoderIter_prelude_short(e) ==
    [item |-> << MarkerBit(e.index) >>,
     self |-> IF e.index + 1 >= 8 * 14
              THEN [state |-> "Body", inner |-> e.inner, index |-> 0, ones |-> 0]
              ELSE [e EXCEPT !.index = e.index + 1]]

\* HdlcEncoderIter::next, arm Prelude
HdlcEncoderIter_prelude(e) ==
    [item |-> << MarkerBit(e.index) >>,
     self |-> IF e.index + 1 >= 8 * 15
              THEN [state |-> "Body", inner |-> e.inner, index |-> 0, ones |-> 0]
              ELSE [e EXCEPT !.index = e.index + 1]]

\* the Body arm without the stuffed zero after five ones
HdlcEncoderIter_body_unstuffed(e) ==
    LET n == LsbIterator_next(e.inner)
    IN  IF n.item # << >>
        THEN [item |-> n.item,
              self |-> [e EXCEPT !.inner = n.self,
                                 !.ones = IF n.item[1] THEN e.ones + 1 ELSE 0]]
        ELSE [item |-> << FALSE >>,
              self |-> [state |-> "Finishing", inner |-> n.self, index |-> 1, ones |-> 0]]

\* HdlcEncoderIter::next, arm Body
HdlcEncoderIter_body(e) ==
    IF e.ones = 5
    THEN [item |-> << FALSE >>, self |-> [e EXCEPT !.ones = 0]]
    ELSE LET n == LsbIterator_next(e.inner)
         IN  IF n.item # << >>
             THEN [item |-> n.item,
                   self |-> [e EXCEPT !.inner = n.self,
                                      !.ones = IF n.item[1] THEN e.ones + 1 ELSE 0]]
             ELSE [item |-> << FALSE >>,
                   self |-> [state |-> "Finishing", inner |-> n.self, index |-> 1,
                             ones |-> 0]]

\* HdlcEncoderIter::next, arm Finishing
HdlcEncoderIter_finishing(e) ==
    [item |-> << MarkerBit(e.index) >>,
     self |-> IF e.index + 1 >= 16
              THEN [e EXCEPT !.state = "End", !.index = 0]
              ELSE [e EXCEPT !.index = e.index + 1]]

\* HdlcEncoderIter::next
HdlcEncoderIter_next(e) ==
    CASE e.state = "Prelude" -> HdlcEncoderIter_prelude(e)
      [] e.state = "Body" -> HdlcEncoderIter_body(e)
      [] e.state = "Finishing" -> HdlcEncoderIter_finishing(e)
      [] e.state = "End" -> [item |-> << >>, self |-> e]

\* FrameSignal values
Octet(x) == [kind |-> "Octet", value |-> x]

FrameMarker == [kind |-> "FrameMarker", value |-> 0]

DecodeError == [kind |-> "DecodeError", value |-> 0]

\* HdlcDecode::default
HdlcDecode_default ==
    [accum |-> 0, bit |-> 0, ones |-> 0, skip_next_zero |-> FALSE,
     reset_next |-> FALSE, is_running |-> FALSE, empty_bits |-> 0]

\* a reset that leaves is_running as it is
HdlcDecode_reset_keeps_running(d) ==
    [HdlcDecode_default EXCEPT !.is_running = d.is_running]

\* HdlcDecode::reset
HdlcDecode_reset(d) == HdlcDecode_default

\* Filter<bool>::filter with the marker taken at any bit count while running
HdlcDecode_filter_any_alignment(d, sample) ==
    IF d.reset_next
    THEN IF ~sample
         THEN [out |-> << FrameMarker >>,
               self |-> [HdlcDecode_reset(d) EXCEPT !.is_running = TRUE]]
         ELSE IF d.is_running
         THEN [out |-> << DecodeError >>,
               self |-> [HdlcDecode_reset(d) EXCEPT !.is_running = FALSE]]
         ELSE [out |-> << >>, self |-> HdlcDecode_reset(d)]
    ELSE IF d.skip_next_zero
    THEN [out |-> << >>,
          self |-> [d EXCEPT !.skip_next_zero = FALSE, !.reset_next = sample]]
    ELSE LET accum == (d.accum \div 2) + u8_from_bool(sample) * 128
             ones1 == IF sample THEN d.ones + 1 ELSE 0
             bit1 == d.bit + 1
             d1 == [d EXCEPT !.accum = accum,
                             !.ones = IF ones1 = 5 THEN 0 ELSE ones1,
                             !.skip_next_zero = (ones1 = 5),
                             !.bit = IF bit1 >= 8 THEN 0 ELSE bit1]
         IN  [out |-> IF bit1 >= 8 /\ d.is_running THEN << Octet(accum) >> ELSE << >>,
              self |-> d1]

\* <HdlcDecode as Filter<bool>>::filter: the Option<FrameSignal> and the new state
HdlcDecode_filter(d, sample) ==
    IF d.reset_next
    THEN IF ~sample /\ (~d.is_running \/ d.bit = 6 \/ d.bit = 5)
         THEN [out |-> << FrameMarker >>,
               self |-> [HdlcDecode_reset(d) EXCEPT !.is_running = TRUE]]
         ELSE IF d.is_running
         THEN [out |-> << DecodeError >>,
               self |-> [HdlcDecode_reset(d) EXCEPT !.is_running = FALSE]]
         ELSE [out |-> << >>, self |-> HdlcDecode_reset(d)]
    ELSE IF d.skip_next_zero
    THEN [out |-> << >>,
          self |-> [d EXCEPT !.skip_next_zero = FALSE, !.reset_next = sample]]
    ELSE LET accum == (d.accum \div 2) + u8_from_bool(sample) * 128
             ones1 == IF sample THEN d.ones + 1 ELSE 0
             bit1 == d.bit + 1
             d1 == [d EXCEPT !.accum = accum,
                             !.ones = IF ones1 = 5 THEN 0 ELSE ones1,
                             !.skip_next_zero = (ones1 = 5),
                             !.bit = IF bit1 >= 8 THEN 0 ELSE bit1]
         IN  [out |-> IF bit1 >= 8 /\ d.is_running THEN << Octet(accum) >> ELSE << >>,
              self |-> d1]

\* Filter<Option<bool>>::filter that reports a carrier loss as DecodeError
HdlcDecode_filter_option_signals_loss(d, sample) ==
    IF sample # << >>
    THEN HdlcDecode_filter([d EXCEPT !.empty_bits = 0], sample[1])
    ELSE IF d.empty_bits + 1 > 20
    THEN [out |-> << DecodeError >>, self |-> HdlcDecode_reset(d)]
    ELSE [out |-> << >>, self |-> [d EXCEPT !.empty_bits = d.empty_bits + 1]]

\* the Option<bool> filter with the reset on the 20th empty input
HdlcDecode_filter_option_at_20(d, sample) ==
    IF sample # << >>
    THEN HdlcDecode_filter([d EXCEPT !.empty_bits = 0], sample[1])
    ELSE [out |-> << >>,
          self |-> IF d.empty_bits + 1 >= 20 THEN HdlcDecode_reset(d)
                   ELSE [d EXCEPT !.empty_bits = d.empty_bits + 1]]

\* <HdlcDecode as Filter<Option<bool>>>::filter
HdlcDecode_filter_option(d, sample) ==
    IF sample # << >>
    THEN HdlcDecode_filter([d EXCEPT !.empty_bits = 0], sample[1])
    ELSE [out |-> << >>,
          self |-> IF d.empty_bits + 1 > 20 THEN HdlcDecode_reset(d)
                   ELSE [d EXCEPT !.empty_bits = d.empty_bits + 1]]

\* the decoder after the bits have gone through Filter<bool>::filter
RECURSIVE HdlcDecode_after(_, _)
HdlcDecode_after(d, bits) ==
    IF bits = << >> THEN d
    ELSE HdlcDecode_after(HdlcDecode_filter(d, Head(bits)).self, Tail(bits))

\* a collector that keeps its buffer on DecodeError
FrameCollector_filter_keeps_on_error(frame, sample) ==
    IF sample # << >> /\ sample[1].kind = "Octet"
    THEN [out |-> << >>, self |-> Append(frame, sample[1].value)]
    ELSE IF sample # << >> /\ sample[1].kind = "FrameMarker" /\ frame # << >>
    THEN [out |-> << frame >>, self |-> << >>]
    ELSE [out |-> << >>, self |-> frame]

\* <FrameCollector as Filter<Option<FrameSignal>>>::filter: the Option<Vec<u8>>
\* and the new frame buffer
FrameCollector_filter(frame, sample) ==
    IF sample # << >> /\ sample[1].kind = "Octet"
    THEN [out |-> << >>, self |-> Append(frame, sample[1].value)]
    ELSE IF sample # << >> /\ sample[1].kind = "FrameMarker" /\ frame # << >>
    THEN [out |-> << frame >>, self |-> << >>]
    ELSE IF sample # << >> /\ sample[1].kind = "DecodeError"
    THEN [out |-> << >>, self |-> << >>]
    ELSE [out |-> << >>, self |-> frame]

(***************************************************************************)
(* The MAC receive filter (arngll/src/mac.rs, security.rs): the            *)
(* synchronous pieces of Mac::listen.                                      *)
(***************************************************************************)
\* NullSecurityContext::process_inbound: the result and the payload left in place
process_inbound(frame_info, payload) ==
    IF frame_info.sec_info # << >>
    THEN [status |-> "Err", payload |-> payload]
    ELSE [status |-> "Ok", payload |-> payload]

\* the network check of Mac::listen: TRUE when the frame is not dropped
network_check(frame_info, netid) ==
    (IF frame_info.network_id # << >> THEN frame_info.network_id[1] ELSE 0) = netid

\* direct_unicast of Mac::listen
direct_unicast(frame_info, callsign) == frame_info.dst_addr = callsign

\* direct_multicast of Mac::listen
direct_multicast(frame_info) == HamAddr_is_multicast(frame_info.dst_addr)

\* ack_bytes without the CRC octets
ack_bytes_without_crc(ack_frame) == bytes_with_payload(ack_frame, << >>)

\* ack_bytes of Mac::listen: the ACK frame's octets followed by its CRC
ack_bytes(ack_frame) == append_crc(bytes_with_payload(ack_frame, << >>))

\* Sink::start_send handing over only the first half of the buffer
start_send_partial(sink, item) == Append(sink, SubSeq(item, 1, Len(item) \div 2))

\* Sink::start_send of a Sink<Vec<u8>>: the sink takes the whole buffer
start_send(sink, item) == Append(sink, item)

\* the position of the inbound stream after next() has yielded a buffer
stream_advance(pos) == pos + 1

\* a stream guard dropped as soon as next() has returned
stream_guard_dropped_early(l) == 0

\* the holder of the stream lock while the body of the while-let loop runs: the
\* MutexGuard is a temporary of the loop's scrutinee and lives to the end of
\* the iteration
stream_guard_in_body(l) == l

(***************************************************************************)
(* Inputs of the frame codec.                                              *)
(***************************************************************************)
\* "X1X": one chunk
ADDR_X1X == << 154, 120, 0, 0, 0, 0, 0, 0 >>

\* "HUXLEY": two chunks
ADDR_HUXLEY == << 53, 96, 75, 225, 0, 0, 0, 0 >>

\* "RAD-RELAY": three chunks
ADDR_RAD_RELAY == << 112, 172, 240, 85, 75, 65, 0, 0 >>

\* "VI2BMARC50": four chunks
ADDR_VI2BMARC50 == << 139, 5, 14, 137, 113, 24, 168, 192 >>

\* an IPv6 multicast address
ADDR_MCAST6 == << 250, 1, 0, 0, 0, 0, 0, 0 >>

\* an address with a zero chunk between two non-zero chunks
ADDR_GAP == << 154, 120, 0, 0, 53, 96, 0, 0 >>

CodecAddrs == { HamAddr_EMPTY, ADDR_X1X, ADDR_HUXLEY, ADDR_VI2BMARC50, ADDR_GAP }

CodecRelays == { << >>, << ADDR_RAD_RELAY >>, << ADDR_VI2BMARC50 >> }

CodecNetIds == { << >>, << 4660 >> }

\* security headers: kid is present iff kim = KeyIndex, the MIC has len octets
CodecSecInfos ==
    { << >>,
      << [enc |-> FALSE, kim |-> "Addresses", fcntr |-> << 3, 4919 >>, kid |-> << >>,
          mic |-> Mic_EMPTY] >>,
      << [enc |-> TRUE, kim |-> "KeyIndex", fcntr |-> << 65535, 65535 >>, kid |-> << 6 >>,
          mic |-> [len |-> "Mic64",
                   code |-> << 1, 2, 3, 4, 5, 6, 7, 255 >> \o Zeros(8)]] >>,
      << [enc |-> FALSE, kim |-> "Reserved3", fcntr |-> << 0, 0 >>, kid |-> << >>,
          mic |-> [len |-> "Mic128", code |-> [i \in 1..16 |-> 16 + i]]] >> }

CodecPayloads == { << >>, << 255, 0, 126 >> }

CodecAckCrcs == { 0, 48879, 65535 }

\* the valid frames of type Beacon, Data and MacCommand
CodecDataFrames ==
    { [frame_type |-> t, ack_requested |-> a, is_from_relay |-> r, network_id |-> n,
       dst_addr |-> d, src_addr |-> s, rly_addr |-> y, sec_info |-> c, ack_crc |-> 0] :
        t \in {"Beacon", "Data", "MacCommand"}, a \in BOOLEAN, r \in BOOLEAN,
        n \in CodecNetIds, d \in CodecAddrs, s \in CodecAddrs, y \in CodecRelays,
        c \in CodecSecInfos }

\* the valid frames of type Ack: only src_addr and ack_crc are set
CodecAckFrames ==
    { [FrameInfo_EMPTY EXCEPT !.frame_type = "Ack", !.src_addr = s, !.ack_crc = c] :
        s \in CodecAddrs, c \in CodecAckCrcs }

\* the octets raw buffers are drawn from: 0x00, 0x1F, 0x20, 0x50
RawOctets == { 0, 31, 32, 80 }

\* every buffer of at most MaxRawLen octets of RawOctets
RawBuffers == UNION { [1..n -> RawOctets] : n \in 0..MaxRawLen }

(***************************************************************************)
(* Inputs of the HDLC round trip.                                          *)
(***************************************************************************)
\* longest byte vector of HdlcOctets fed to the encoder
MaxHdlcLen == 2

\* octets with runs of ones at either end: 0x00, 0x1F, 0x7E, 0xF8, 0xFF
HdlcOctets == { 0, 31, 126, 248, 255 }

\* every single octet, and every vector of at most MaxHdlcLen octets of HdlcOctets
HdlcInputs ==
    { << b >> : b \in 0..255 } \cup UNION { [1..n -> HdlcOctets] : n \in 0..MaxHdlcLen }

(***************************************************************************)
(* Inputs of the MAC receive filter.                                       *)
(***************************************************************************)
\* how many buffers the inbound stream carries at most
MaxInbound == 2

\* how many listen calls may be in progress on the one Mac
NumListeners == 2

Listeners == 1..NumListeners

\* the own callsign of the Mac
MacCallsign == ADDR_X1X

\* the network ids a Mac is configured with: NetworkId(0) and NetworkId(0x1234)
MacNetIds == { 0, 4660 }

\* to us, ACK requested, no network id
MacFramePlain ==
    [FrameInfo_EMPTY EXCEPT !.dst_addr = ADDR_X1X, !.src_addr = ADDR_HUXLEY,
                            !.ack_requested = TRUE]

\* to us, ACK requested, network 0x1234, with a security header
MacFrameSecured ==
    [FrameInfo_EMPTY EXCEPT !.dst_addr = ADDR_X1X, !.src_addr = ADDR_HUXLEY,
                            !.ack_requested = TRUE, !.network_id = << 4660 >>,
                            !.sec_info = << [enc |-> FALSE, kim |-> "Addresses",
                                             fcntr |-> << 3, 4919 >>, kid |-> << >>,
                                             mic |-> Mic_EMPTY] >>]

\* to a multicast group, ACK requested, network 0x1234
MacFrameMcast ==
    [FrameInfo_EMPTY EXCEPT !.frame_type = "Beacon", !.dst_addr = ADDR_MCAST6,
                            !.src_addr = ADDR_HUXLEY, !.ack_requested = TRUE,
                            !.network_id = << 4660 >>]

\* to another station, ACK requested, no network id
MacFrameOther ==
    [FrameInfo_EMPTY EXCEPT !.dst_addr = ADDR_HUXLEY, !.src_addr = ADDR_X1X,
                            !.ack_requested = TRUE]

\* to us, no ACK requested, network 0
MacFrameNoAck ==
    [FrameInfo_EMPTY EXCEPT !.dst_addr = ADDR_X1X, !.src_addr = ADDR_HUXLEY,
                            !.network_id = << 0 >>]

\* to us through a relay, ACK requested, network 0x1234
MacFrameRelayed ==
    [FrameInfo_EMPTY EXCEPT !.dst_addr = ADDR_X1X, !.src_addr = ADDR_HUXLEY,
                            !.rly_addr = << ADDR_RAD_RELAY >>, !.is_from_relay = TRUE,
                            !.ack_requested = TRUE, !.network_id = << 4660 >>]

\* to the broadcast address, ACK requested, no network id
MacFrameBroadcast ==
    [FrameInfo_EMPTY EXCEPT !.dst_addr = HamAddr_BROADCAST, !.src_addr = ADDR_HUXLEY,
                            !.ack_requested = TRUE]

\* the buffers the inbound stream may carry: seven well-formed frames, a buffer
\* that is too short, and a 5-octet buffer whose header declares more octets
MacBuffers ==
    { to_vec(MacFramePlain, << 1 >>),
      to_vec(MacFrameBroadcast, << 7 >>),
      to_vec(MacFrameSecured, << 2, 2 >>),
      to_vec(MacFrameMcast, << 3 >>),
      to_vec(MacFrameOther, << 4 >>),
      to_vec(MacFrameNoAck, << >>),
      to_vec(MacFrameRelayed, << 6 >>),
      << 0, 0, 0, 0 >>,
      << 0, 0, 0, 0, 0 >> }

\* every stream content of at most MaxInbound buffers
MacStreams == UNION { [1..n -> MacBuffers] : n \in 0..MaxInbound }

(***************************************************************************)
(* Inputs of the address conversions.                                      *)
(***************************************************************************)
\* the longest string of which every spelling over CallChars is tried
MaxCallLen == 3

\* the longest run of one character that is tried
MaxRunLen == 13

\* NUL ! - 9 A F ^ a f ~ and one character outside ASCII
CallChars == { 0, 33, 45, 57, 65, 70, 94, 97, 102, 126, 233 }

\* 'KJ6QOH-23'
CALL_KJ6QOH_23 == << 75, 74, 54, 81, 79, 72, 45, 50, 51 >>

\* 'KJ6QOH-2X'
CALL_KJ6QOH_2X == << 75, 74, 54, 81, 79, 72, 45, 50, 88 >>

\* 'KJ6QOH-99'
CALL_KJ6QOH_99 == << 75, 74, 54, 81, 79, 72, 45, 57, 57 >>

\* 'KZ2X-1'
CALL_KZ2X_1 == << 75, 90, 50, 88, 45, 49 >>

\* 'kj6Qoh/p'
CALL_MIXED_CASE == << 107, 106, 54, 81, 111, 104, 47, 112 >>

\* 'VI2BMARC50-X'
CALL_VI2BMARC50_X == << 86, 73, 50, 66, 77, 65, 82, 67, 53, 48, 45, 88 >>

\* 'VI2BMARC50-1A'
CALL_TOO_LONG == << 86, 73, 50, 66, 77, 65, 82, 67, 53, 48, 45, 49, 65 >>

\* 'ABC\0\0\0DEF'
CALL_NUL_GAP == << 65, 66, 67, 0, 0, 0, 68, 69, 70 >>

\* '~fFfF'
CALL_BROADCAST_MIXED == << 126, 102, 70, 102, 70 >>

\* the strings handed to try_from_callsign
CallsignStrings ==
    UNION { [1..n -> CallChars] : n \in 0..MaxCallLen }
        \cup { [i \in 1..n |-> 65] : n \in 1..MaxRunLen }
        \cup { STR_BROADCAST_UPPER, STR_BROADCAST_LOWER, CALL_BROADCAST_MIXED,
               CALL_KJ6QOH_23, CALL_KJ6QOH_2X, CALL_KJ6QOH_99, CALL_KZ2X_1, CALL_MIXED_CASE,
               CALL_VI2BMARC50_X, CALL_TOO_LONG, CALL_NUL_GAP }

\* first chunks: around the bounds of each address type
AddrChunk0s ==
    { 0, 1, 1599, 1600, 18033, 27808, 27809, 63992, 63999, 64000, 64251, 64507, 65534,
      65535 }

\* higher chunks: zero, out of range, in range with and without low bits
AddrChunks == { 0, 1599, 1600, 27809, 63992, 64000, 65534 }

\* the addresses handed to the conversions
HamAddrs ==
    { HamAddr_from_chunks(<< c0, c1, c2, c3 >>) :
        c0 \in AddrChunk0s, c1 \in AddrChunks, c2 \in AddrChunks, c3 \in AddrChunks }

\* the octets a, b, c, d of the multicast EUI-48s
EuiOctets == { 0, 1, 94, 204, 251, 255 }

\* the EUI-48s handed to HamAddr::try_from
Eui48s ==
    { Eui48_EMPTY, Eui48_BROADCAST, << 34, 70, 113, 108, 160, 242 >>,
      << 2, 255, 255, 0, 0, 0 >>, << 3, 0, 0, 0, 0, 0 >> }
        \cup { << 1, 0, 94, a, b, c >> : a \in EuiOctets, b \in EuiOctets, c \in EuiOctets }
        \cup { << 204, 204, a, b, c, d >> :
                 a \in EuiOctets, b \in EuiOctets, c \in EuiOctets, d \in EuiOctets }

(***************************************************************************)
(* Inputs of the NRZI pipe and of the CRC trailer.                         *)
(***************************************************************************)
\* the most bits pushed through the NRZI pipe
MaxBits == 7

\* the longest byte vector that gets a CRC appended
MaxCrcLen == 3

\* how often next() is called again after it returned None
MaxNone == 2

CrcOctets == { 0, 1, 126, 255 }

CrcInputs == UNION { [1..n -> CrcOctets] : n \in 0..MaxCrcLen }

(***************************************************************************)
(* State.                                                                  *)
(***************************************************************************)
VARIABLES
    cpc,        \* codec: "frame", "bytes", "parsed", "acked" ("idle": not in use)
    cframe,     \* codec: the FrameInfo to serialise
    cpayload,   \* codec: the payload to serialise
    corigin,    \* codec: where cbytes comes from: "none", "serialized", "truncated",
                \*        "reversioned", "raw"
    cbytes,     \* codec: the buffer handed to try_from_bytes
    cresult,    \* codec: the result of try_from_bytes
    cack,       \* codec: the result of generate_ack_frame
    hpc,        \* hdlc: "run" while the encoder yields bits, then "done"
    hB,         \* hdlc: the byte vector being sent
    henc,       \* hdlc: the HdlcEncoderIter over the bits of hB
    hdec,       \* hdlc: the HdlcDecode
    hcoll,      \* hdlc: the frame buffer of the FrameCollector
    hframes,    \* hdlc: the frames the FrameCollector has yielded, in order
    hlsb,       \* hdlc: the bits the encoder has pulled from the LsbIterator, in order
    hbits,      \* hdlc: the bits the encoder has yielded, in order
    hx,         \* hdlc: the bits the decoder has shifted into the octet it is assembling
    hout,       \* hdlc: the last output of the decoder
    mactive,    \* mac: TRUE when the Mac is in use
    mnetid,     \* mac: Mac.netid
    inbound,    \* mac: the buffers of the inbound stream, in arrival order
    spos,       \* mac: the index in inbound of the buffer next() yields next
    sclosed,    \* mac: the inbound stream has ended
    streamLock, \* mac: the listener holding Mac.stream's lock, 0 when free
    sinkLock,   \* mac: the listener holding Mac.sink's lock, 0 when free
    sink,       \* mac: the buffers the sink has taken, in order
    pc,         \* mac: where each listen call stands
    cur,        \* mac: the index of the buffer each listen call is working on, or 0
    ackbuf,     \* mac: ack_bytes of each listen call
    result,     \* mac: how the last listen call of each listener ended
    taken,      \* mac, history: << listener, index >> for every buffer taken
    handed,     \* mac, history: [idx, bytes] of every sink.send(bytes)
    returned,   \* mac, history: [idx, frame_info, payload] of every Ok(Some(..))
    outcome,    \* mac, history: what became of each inbound buffer
    asrc,       \* addr: what ain is: "callsign", "addr", "eui48" ("none": not in use)
    aflow,      \* addr: the conversions applied: "text", "eui48", "eui64", "shape"
    ain,        \* addr: the input
    ah,         \* addr: the HamAddr under test, once it is known
    aeui,       \* addr: the result of Eui48::try_from / Eui64::try_from
    aback,      \* addr: the result of HamAddr::try_from of that EUI
    atext,      \* addr: the Display rendering
    are,        \* addr: the result of parsing the rendering
    atype,      \* addr: the result of get_type, "None" before the call
    atrim,      \* addr: Some(as_trimmed_slice()), None before the call
    aagain,     \* addr: the result of try_from_slice of the trimmed slice
    nrun,       \* nrzi: TRUE when the pipe is in use
    nenc,       \* nrzi: NrziEncode.last
    ndec,       \* nrzi: NrziDecode.last
    nin,        \* nrzi: the bits pushed in so far
    nout,       \* nrzi: the bits that came out so far
    krun,       \* crc: TRUE when the iterator is in use
    kB,         \* crc: the byte vector B
    kiter,      \* crc: the CrcAppendIter
    kout,       \* crc: the bytes next() has yielded, in order
    knone       \* crc: how often next() has returned None

codecVars == << cpc, cframe, cpayload, corigin, cbytes, cresult, cack >>

hdlcVars == << hpc, hB, henc, hdec, hcoll, hframes, hlsb, hbits, hx, hout >>

macVars ==
    << mactive, mnetid, inbound, spos, sclosed, streamLock, sinkLock, sink, pc, cur,
       ackbuf, result, taken, handed, returned, outcome >>

VARIABLES
    adirect,    \* addr: the result of Eui64::try_from(addr)
    awide,      \* addr: Eui64::from of the result of Eui48::try_from(addr)
    anarrow     \* addr: the result of try_to_eui48 on the EUI-64 in adirect

euiVars == << adirect, awide, anarrow >>

addrVars ==
    << asrc, aflow, ain, ah, aeui, aback, atext, are, atype, atrim, aagain, euiVars >>

nrziVars == << nrun, nenc, ndec, nin, nout >>

crcVars == << krun, kB, kiter, kout, knone >>

VARIABLES
    sender,     \* the Bell202Sender: is_channel_clear, channel_clear_waker, cca_backoff_timer
    sendframe,  \* the frame queue between sendframe_sender and sendframe_receiver
    encoder,    \* the encoder of the output callback: frame being played, samples left
    txpc,       \* the sending task: "off", "idle", "pending", "ready", "committed", "failed"
    txn,        \* frames the task has handed to start_send
    txwoken     \* the task's waker has been woken since the task was last polled

senderVars == << sender, sendframe, encoder, txpc, txn, txwoken >>

VARIABLES
    recvframe,  \* the frame channel between recvframe_sender and recvframe_receiver
    rxpc,       \* the input stream: "off" or "on"
    rxn,        \* frames the decoder has yielded
    rxlog,      \* the frames of the last callback and what was done with each
    rxlast      \* the frame the consumer took last, if any

receiverVars == << recvframe, rxpc, rxn, rxlog, rxlast >>

VARIABLES
    dpc,        \* the decoder under test: "off", "bits" (fed bits), "carrier" or "any" (fed Option<bool>)
    dec,        \* the HdlcDecode
    dprev,      \* the HdlcDecode as it was before the last call of filter
    din,        \* the last input, an Option<bool>
    dout,       \* the last output, an Option<FrameSignal>
    dnones,     \* the None inputs in a row up to now ("any": since the last carrier loss)
    dsome,      \* the Some inputs up to now
    drun        \* "any": a FrameMarker came out, and no DecodeError or carrier loss since

decodeVars == << dpc, dec, dprev, din, dout, dnones, dsome, drun >>

VARIABLES
    bpc,          \* the modem run: "off", "encoded", "run", "done", "silent" or "panicked"
    sample_rate,  \* the sample rate handed to the encoder and to the decoder
    cfg_test,     \* TRUE in a build with cfg(test), FALSE in any other build
    bB,           \* the octets handed to bell_202_encode
    bencode,      \* the digital stages of the encoder: HDLC iterator and NRZI level
    bdecoder,     \* the digital stages of the decoder: NRZI level, HdlcDecode, frame
    bfirst        \* the first frame the decoder has yielded, an Option<Vec<u8>>

modemVars == << bpc, sample_rate, cfg_test, bB, bencode, bdecoder, bfirst >>

VARIABLES
    fpc,        \* the frame collector under test: "off" or "on"
    fframe,     \* the FrameCollector: its field frame
    fsample,    \* the last input, an Option<FrameSignal>
    fout,       \* the last output, an Option<Vec<u8>>
    fsince,     \* the octets received since the last emission or DecodeError
    fn          \* the calls of filter up to now

collectorVars == << fpc, fframe, fsample, fout, fsince, fn >>

VARIABLES
    fskpc,      \* the FSK slicer under test: "off" or "on"
    fsk,        \* the FskDemod: offset, scale, last_mag
    fsksample,  \* the last input: the pair (frequency, magnitude squared)
    fskout,     \* the last output, an Option<bool>
    fskn        \* the calls of filter up to now

fskVars == << fskpc, fsk, fsksample, fskout, fskn >>

VARIABLES
    bspc,       \* the bit sampler under test: "off" or "on"
    bs,         \* the BitSampler: sample_rate, bit_rate, accumulator, last_bit
    bsin,       \* the bits put on the line so far, the last one perhaps still held
    bsheld,     \* the samples of the last bit fed so far
    bsout,      \* the values of the Some outputs so far
    bslast,     \* the samples fed since the last Some output (0: this sample, or none yet)
    bsconst     \* the line has not changed since the last Some output

samplerVars == << bspc, bs, bsin, bsheld, bsout, bslast, bsconst >>

VARIABLES
    clpc,       \* the interrupted line: "off", "first", "gap", "second" or "done"
    clB,        \* the octets of the frame that is interrupted
    clenc,      \* the HDLC encoder on the line
    cldec,      \* the HdlcDecode
    clframe,    \* the FrameCollector: its field frame
    clgap,      \* the None inputs since the carrier was lost
    clkept,     \* the octets the collector held when the carrier was lost
    clbits,     \* the bits of the second frame fed so far
    clframes    \* the frames the collector has yielded

lossVars == << clpc, clB, clenc, cldec, clframe, clgap, clkept, clbits, clframes >>

dspVars == << collectorVars, fskVars, samplerVars, lossVars >>

phyVars == << senderVars, receiverVars, decodeVars, modemVars, dspVars >>

\* the variables of every subsystem but the signal-processing filters
restVars ==
    << codecVars, hdlcVars, macVars, addrVars, nrziVars, crcVars,
       senderVars, receiverVars, decodeVars, modemVars >>

vars == << codecVars, hdlcVars, macVars, addrVars, nrziVars, crcVars, phyVars >>

(***************************************************************************)
(* The codec as a state machine: a frame is serialised, the buffer may be  *)
(* damaged on the way, the receiver parses it and derives the ACK.         *)
(***************************************************************************)
CodecIdle ==
    /\ cpc = "idle"
    /\ cframe = FrameInfo_EMPTY
    /\ cpayload = << >>
    /\ corigin = "none"
    /\ cbytes = << >>
    /\ cresult = ParseFail("Err", "")
    /\ cack = << >>

CodecInit ==
    /\ cresult = ParseFail("Err", "")
    /\ cack = << >>
    /\ \/ /\ cpc = "frame"
          /\ corigin = "none"
          /\ cbytes = << >>
          /\ cframe \in CodecDataFrames \cup CodecAckFrames
          /\ cpayload \in CodecPayloads
       \/ /\ cpc = "bytes"
          /\ corigin = "raw"
          /\ cframe = FrameInfo_EMPTY
          /\ cpayload = << >>
          /\ cbytes \in RawBuffers

(***************************************************************************)
(* The HDLC round trip as a state machine: each step pulls one bit from    *)
(* the encoder and pushes it through the decoder into the collector.       *)
(***************************************************************************)
HdlcIdle ==
    /\ hpc = "idle"
    /\ hB = << >>
    /\ henc = hdlc_encode(bits_lsb(<< >>))
    /\ hdec = HdlcDecode_default
    /\ hcoll = << >>
    /\ hframes = << >>
    /\ hlsb = << >>
    /\ hbits = << >>
    /\ hx = << >>
    /\ hout = << >>

HdlcInit ==
    /\ hpc = "run"
    /\ hB \in HdlcInputs
    /\ henc = hdlc_encode(bits_lsb(hB))
    /\ hdec = HdlcDecode_default
    /\ hcoll = << >>
    /\ hframes = << >>
    /\ hlsb = << >>
    /\ hbits = << >>
    /\ hx = << >>
    /\ hout = << >>

\* the sender serialises the frame; the call unwinds when the assertion of
\* bytes_with_payload fails, and then no buffer exists
Serialize ==
    /\ cpc = "frame"
    /\ IF bytes_with_payload_panics(cframe, cpayload)
       THEN /\ cpc' = "panicked"
            /\ UNCHANGED << cbytes, corigin >>
       ELSE /\ cbytes' = bytes_with_payload(cframe, cpayload)
            /\ corigin' = "serialized"
            /\ cpc' = "bytes"
    /\ UNCHANGED << cframe, cpayload, cresult, cack >>
    /\ UNCHANGED << hdlcVars, macVars, addrVars, nrziVars, crcVars, phyVars >>

\* the buffer reaches the receiver with its last k octets missing
Truncate ==
    /\ cpc = "bytes"
    /\ corigin = "serialized"
    /\ \E k \in 1..MaxCut :
        /\ k <= Len(cbytes)
        /\ cbytes' = SubSeq(cbytes, 1, Len(cbytes) - k)
    /\ corigin' = "truncated"
    /\ UNCHANGED << cpc, cframe, cpayload, cresult, cack >>
    /\ UNCHANGED << hdlcVars, macVars, addrVars, nrziVars, crcVars, phyVars >>

\* the peer emitted the same frame under another protocol version
SetVersion ==
    /\ cpc = "bytes"
    /\ corigin = "serialized"
    /\ \E v \in 1..3 : cbytes' = [cbytes EXCEPT ![1] = v * 64 + (cbytes[1] % 64)]
    /\ corigin' = "reversioned"
    /\ UNCHANGED << cpc, cframe, cpayload, cresult, cack >>
    /\ UNCHANGED << hdlcVars, macVars, addrVars, nrziVars, crcVars, phyVars >>

\* the receiver parses the buffer
Parse ==
    /\ cpc = "bytes"
    /\ cresult' = try_from_bytes(cbytes)
    /\ cpc' = "parsed"
    /\ UNCHANGED << cframe, cpayload, corigin, cbytes, cack >>
    /\ UNCHANGED << hdlcVars, macVars, addrVars, nrziVars, crcVars, phyVars >>

\* the receiver derives the ACK from the parse result
GenerateAck ==
    /\ cpc = "parsed"
    /\ cresult.status = "Ok"
    /\ cack' = generate_ack_frame(cresult.frame_info, cresult.payload)
    /\ cpc' = "acked"
    /\ UNCHANGED << cframe, cpayload, corigin, cbytes, cresult >>
    /\ UNCHANGED << hdlcVars, macVars, addrVars, nrziVars, crcVars, phyVars >>

CodecNext == Serialize \/ Truncate \/ SetVersion \/ Parse \/ GenerateAck

\* the encoder yields a bit; the decoder filters it; the collector filters
\* the decoder's output
HdlcFeed ==
    /\ hpc = "run"
    /\ LET e == HdlcEncoderIter_next(henc)
       IN  /\ e.item # << >>
           /\ LET d == HdlcDecode_filter(hdec, e.item[1])
                  c == FrameCollector_filter(hcoll, d.out)
              IN  /\ henc' = e.self
                  /\ hdec' = d.self
                  /\ hcoll' = c.self
                  /\ hframes' = hframes \o c.out
                  /\ hout' = d.out
           /\ hbits' = Append(hbits, e.item[1])
           /\ hlsb' = hlsb \o (IF henc.state = "Body" /\ henc.ones # 5
                                THEN LsbIterator_next(henc.inner).item ELSE << >>)
           /\ hx' = IF hdec.reset_next THEN << >>
                    ELSE IF hdec.skip_next_zero THEN hx
                    ELSE IF Len(hx) = 8 THEN << e.item[1] >>
                    ELSE Append(hx, e.item[1])
    /\ UNCHANGED << hpc, hB >>
    /\ UNCHANGED << codecVars, macVars, addrVars, nrziVars, crcVars, phyVars >>

\* the encoder yields None: the bit stream is over
HdlcEnd ==
    /\ hpc = "run"
    /\ HdlcEncoderIter_next(henc).item = << >>
    /\ hpc' = "done"
    /\ UNCHANGED << hB, henc, hdec, hcoll, hframes, hlsb, hbits, hx, hout >>
    /\ UNCHANGED << codecVars, macVars, addrVars, nrziVars, crcVars, phyVars >>

HdlcNext == HdlcFeed \/ HdlcEnd

(***************************************************************************)
(* The MAC receive filter as a state machine.  A listen call moves from    *)
(* one suspension point to the next:                                       *)
(*   "idle"        no call in progress                                     *)
(*   "lock_stream" awaiting self.stream.lock()                             *)
(*   "next"        holding the stream lock, awaiting next()                *)
(*   "lock_sink"   ACK built, awaiting self.sink.lock()                    *)
(*   "send_ready"  in send(ack_bytes), the sink has not taken the buffer   *)
(*   "send_flush"  in send(ack_bytes), the sink has taken it, flushing     *)
(*   "panicked"    the call unwound                                        *)
(***************************************************************************)
MacIdle ==
    /\ mactive = FALSE
    /\ mnetid = 0
    /\ inbound = << >>
    /\ spos = 1
    /\ sclosed = FALSE
    /\ streamLock = 0
    /\ sinkLock = 0
    /\ sink = << >>
    /\ pc = [l \in Listeners |-> "idle"]
    /\ cur = [l \in Listeners |-> 0]
    /\ ackbuf = [l \in Listeners |-> << >>]
    /\ result = [l \in Listeners |-> "none"]
    /\ taken = << >>
    /\ handed = << >>
    /\ returned = << >>
    /\ outcome = << >>

\* Mac::new over a stream that will carry the buffers of inbound
MacInit ==
    /\ mactive = TRUE
    /\ mnetid \in MacNetIds
    /\ inbound \in MacStreams
    /\ spos = 1
    /\ sclosed = FALSE
    /\ streamLock = 0
    /\ sinkLock = 0
    /\ sink = << >>
    /\ pc = [l \in Listeners |-> "idle"]
    /\ cur = [l \in Listeners |-> 0]
    /\ ackbuf = [l \in Listeners |-> << >>]
    /\ result = [l \in Listeners |-> "none"]
    /\ taken = << >>
    /\ handed = << >>
    /\ returned = << >>
    /\ outcome = [i \in 1..Len(inbound) |-> "pending"]

\* the inbound stream ends
StreamClose ==
    /\ mactive
    /\ ~sclosed
    /\ sclosed' = TRUE
    /\ UNCHANGED << mactive, mnetid, inbound, spos, streamLock, sinkLock, sink, pc, cur,
                    ackbuf, result, taken, handed, returned, outcome >>
    /\ UNCHANGED << codecVars, hdlcVars, addrVars, nrziVars, crcVars, phyVars >>

\* listen() is called
Call(l) ==
    /\ mactive
    /\ pc[l] = "idle"
    /\ pc' = [pc EXCEPT ![l] = "lock_stream"]
    /\ result' = [result EXCEPT ![l] = "none"]
    /\ UNCHANGED << mactive, mnetid, inbound, spos, sclosed, streamLock, sinkLock, sink,
                    cur, ackbuf, taken, handed, returned, outcome >>
    /\ UNCHANGED << codecVars, hdlcVars, addrVars, nrziVars, crcVars, phyVars >>

\* self.stream.lock().await completes
LockStream(l) ==
    /\ pc[l] = "lock_stream"
    /\ streamLock = 0
    /\ streamLock' = l
    /\ pc' = [pc EXCEPT ![l] = "next"]
    /\ UNCHANGED << mactive, mnetid, inbound, spos, sclosed, sinkLock, sink, cur, ackbuf,
                    result, taken, handed, returned, outcome >>
    /\ UNCHANGED << codecVars, hdlcVars, addrVars, nrziVars, crcVars, phyVars >>

\* next() yields None: the loop ends and listen returns Ok(None)
StreamEnd(l) ==
    /\ pc[l] = "next"
    /\ spos > Len(inbound)
    /\ sclosed
    /\ pc' = [pc EXCEPT ![l] = "idle"]
    /\ result' = [result EXCEPT ![l] = "None"]
    /\ streamLock' = 0
    /\ UNCHANGED << mactive, mnetid, inbound, spos, sclosed, sinkLock, sink, cur, ackbuf,
                    taken, handed, returned, outcome >>
    /\ UNCHANGED << codecVars, hdlcVars, addrVars, nrziVars, crcVars, phyVars >>

\* next() yields the buffer at spos to listener l
Taking(l) ==
    /\ pc[l] = "next"
    /\ spos <= Len(inbound)
    /\ spos' = stream_advance(spos)
    /\ taken' = Append(taken, << l, spos >>)

\* a `continue` that keeps the stream guard while the loop locks the stream
\* again
Continue_keeps_guard(l, idx, why) ==
    /\ pc' = [pc EXCEPT ![l] = "lock_stream"]
    /\ streamLock' = l
    /\ outcome' = [outcome EXCEPT ![idx] = why]
    /\ cur' = [cur EXCEPT ![l] = 0]
    /\ ackbuf' = [ackbuf EXCEPT ![l] = << >>]
    /\ UNCHANGED << result, returned >>

\* `continue`: the guard is dropped and the loop locks the stream again
Continue(l, idx, why) ==
    /\ pc' = [pc EXCEPT ![l] = "lock_stream"]
    /\ streamLock' = 0
    /\ outcome' = [outcome EXCEPT ![idx] = why]
    /\ cur' = [cur EXCEPT ![l] = 0]
    /\ ackbuf' = [ackbuf EXCEPT ![l] = << >>]
    /\ UNCHANGED << result, returned >>

\* from the security check to the end of the loop body: process_inbound, then
\* `continue` on an error and `return Ok(Some(..))` otherwise
Deliver(l, idx, parsed) ==
    LET sec == process_inbound(parsed.frame_info, parsed.payload)
    IN  IF sec.status # "Ok"
        THEN Continue(l, idx, "security_error")
        ELSE /\ pc' = [pc EXCEPT ![l] = "idle"]
             /\ streamLock' = 0
             /\ outcome' = [outcome EXCEPT ![idx] = "returned"]
             /\ cur' = [cur EXCEPT ![l] = 0]
             /\ ackbuf' = [ackbuf EXCEPT ![l] = << >>]
             /\ result' = [result EXCEPT ![l] = "Some"]
             /\ returned' = Append(returned, [idx |-> idx,
                                              frame_info |-> parsed.frame_info,
                                              payload |-> sec.payload])

\* try_from_bytes panics: the call unwinds and drops the stream guard
TakePanic(l) ==
    /\ Taking(l)
    /\ try_from_bytes(inbound[spos]).status = "Panic"
    /\ pc' = [pc EXCEPT ![l] = "panicked"]
    /\ result' = [result EXCEPT ![l] = "Panic"]
    /\ streamLock' = 0
    /\ outcome' = [outcome EXCEPT ![spos] = "panic"]
    /\ UNCHANGED << mactive, mnetid, inbound, sclosed, sinkLock, sink, cur, ackbuf,
                    handed, returned >>
    /\ UNCHANGED << codecVars, hdlcVars, addrVars, nrziVars, crcVars, phyVars >>

\* try_from_bytes returns Err: logged, continue
TakeParseError(l) ==
    /\ Taking(l)
    /\ try_from_bytes(inbound[spos]).status = "Err"
    /\ Continue(l, spos, "parse_error")
    /\ UNCHANGED << mactive, mnetid, inbound, sclosed, sinkLock, sink, handed >>
    /\ UNCHANGED << codecVars, hdlcVars, addrVars, nrziVars, crcVars, phyVars >>

\* the frame fails the network check: continue
TakeWrongNetwork(l) ==
    /\ Taking(l)
    /\ \E parsed \in { try_from_bytes(inbound[spos]) } :
        /\ parsed.status = "Ok"
        /\ ~network_check(parsed.frame_info, mnetid)
    /\ Continue(l, spos, "wrong_network")
    /\ UNCHANGED << mactive, mnetid, inbound, sclosed, sinkLock, sink, handed >>
    /\ UNCHANGED << codecVars, hdlcVars, addrVars, nrziVars, crcVars, phyVars >>

\* a direct unicast frame that asks for an ACK: ack_bytes is built and the call
\* goes on to lock the sink, still holding the stream guard
TakeAckDue(l) ==
    /\ Taking(l)
    /\ \E parsed \in { try_from_bytes(inbound[spos]) } :
        /\ parsed.status = "Ok"
        /\ network_check(parsed.frame_info, mnetid)
        /\ direct_unicast(parsed.frame_info, MacCallsign)
        /\ \E ack_frame \in { generate_ack_frame(parsed.frame_info, parsed.payload) } :
            /\ ack_frame # << >>
            /\ ackbuf' = [ackbuf EXCEPT ![l] = ack_bytes(ack_frame[1])]
    /\ cur' = [cur EXCEPT ![l] = spos]
    /\ pc' = [pc EXCEPT ![l] = "lock_sink"]
    /\ streamLock' = stream_guard_in_body(l)
    /\ outcome' = [outcome EXCEPT ![spos] = "acking"]
    /\ UNCHANGED << mactive, mnetid, inbound, sclosed, sinkLock, sink, result, handed,
                    returned >>
    /\ UNCHANGED << codecVars, hdlcVars, addrVars, nrziVars, crcVars, phyVars >>

\* neither direct unicast nor multicast: continue
TakeNotForUs(l) ==
    /\ Taking(l)
    /\ \E parsed \in { try_from_bytes(inbound[spos]) } :
        /\ parsed.status = "Ok"
        /\ network_check(parsed.frame_info, mnetid)
        /\ ~direct_unicast(parsed.frame_info, MacCallsign)
        /\ ~direct_multicast(parsed.frame_info)
    /\ Continue(l, spos, "not_for_us")
    /\ UNCHANGED << mactive, mnetid, inbound, sclosed, sinkLock, sink, handed >>
    /\ UNCHANGED << codecVars, hdlcVars, addrVars, nrziVars, crcVars, phyVars >>

\* a frame for us that needs no ACK goes straight to the security context
TakeNoAck(l) ==
    /\ Taking(l)
    /\ \E parsed \in { try_from_bytes(inbound[spos]) } :
        /\ parsed.status = "Ok"
        /\ network_check(parsed.frame_info, mnetid)
        /\ \/ direct_unicast(parsed.frame_info, MacCallsign)
           \/ direct_multicast(parsed.frame_info)
        /\ ~(/\ direct_unicast(parsed.frame_info, MacCallsign)
             /\ generate_ack_frame(parsed.frame_info, parsed.payload) # << >>)
        /\ Deliver(l, spos, parsed)
    /\ UNCHANGED << mactive, mnetid, inbound, sclosed, sinkLock, sink, handed >>
    /\ UNCHANGED << codecVars, hdlcVars, addrVars, nrziVars, crcVars, phyVars >>

\* self.sink.lock().await completes and send(ack_bytes) is called
LockSink(l) ==
    /\ pc[l] = "lock_sink"
    /\ sinkLock = 0
    /\ sinkLock' = l
    /\ pc' = [pc EXCEPT ![l] = "send_ready"]
    /\ handed' = Append(handed, [idx |-> cur[l], bytes |-> ackbuf[l]])
    /\ UNCHANGED << mactive, mnetid, inbound, spos, sclosed, streamLock, sink, cur,
                    ackbuf, result, taken, returned, outcome >>
    /\ UNCHANGED << codecVars, hdlcVars, addrVars, nrziVars, crcVars, phyVars >>

\* the sink is ready and takes the buffer (poll_ready, start_send)
SendStart(l) ==
    /\ pc[l] = "send_ready"
    /\ sink' = start_send(sink, ackbuf[l])
    /\ pc' = [pc EXCEPT ![l] = "send_flush"]
    /\ UNCHANGED << mactive, mnetid, inbound, spos, sclosed, streamLock, sinkLock, cur,
                    ackbuf, result, taken, handed, returned, outcome >>
    /\ UNCHANGED << codecVars, hdlcVars, addrVars, nrziVars, crcVars, phyVars >>

\* the flush completes: the sink guard is dropped and the body goes on to the
\* security context
SendDone(l) ==
    /\ pc[l] = "send_flush"
    /\ sinkLock' = 0
    /\ \E parsed \in { try_from_bytes(inbound[cur[l]]) } : Deliver(l, cur[l], parsed)
    /\ UNCHANGED << mactive, mnetid, inbound, spos, sclosed, sink, taken, handed >>
    /\ UNCHANGED << codecVars, hdlcVars, addrVars, nrziVars, crcVars, phyVars >>

\* a listen that reports the sink's error and returns the frame all the same
SendFail_frame_returned(l) ==
    /\ pc[l] \in {"send_ready", "send_flush"}
    /\ pc' = [pc EXCEPT ![l] = "idle"]
    /\ result' = [result EXCEPT ![l] = "Err"]
    /\ sinkLock' = 0
    /\ streamLock' = 0
    /\ outcome' = [outcome EXCEPT ![cur[l]] = "sink_error"]
    /\ cur' = [cur EXCEPT ![l] = 0]
    /\ ackbuf' = [ackbuf EXCEPT ![l] = << >>]
    /\ \E parsed \in { try_from_bytes(inbound[cur[l]]) } :
          returned' = Append(returned, [idx |-> cur[l],
                                        frame_info |-> parsed.frame_info,
                                        payload |-> parsed.payload])
    /\ UNCHANGED << mactive, mnetid, inbound, spos, sclosed, sink, taken, handed >>
    /\ UNCHANGED << codecVars, hdlcVars, addrVars, nrziVars, crcVars, phyVars >>

\* the sink reports an error, before or after taking the buffer: `?` returns it
SendFail(l) ==
    /\ pc[l] \in {"send_ready", "send_flush"}
    /\ pc' = [pc EXCEPT ![l] = "idle"]
    /\ result' = [result EXCEPT ![l] = "Err"]
    /\ sinkLock' = 0
    /\ streamLock' = 0
    /\ outcome' = [outcome EXCEPT ![cur[l]] = "sink_error"]
    /\ cur' = [cur EXCEPT ![l] = 0]
    /\ ackbuf' = [ackbuf EXCEPT ![l] = << >>]
    /\ UNCHANGED << mactive, mnetid, inbound, spos, sclosed, sink, taken, handed,
                    returned >>
    /\ UNCHANGED << codecVars, hdlcVars, addrVars, nrziVars, crcVars, phyVars >>

\* the future of a listen call is dropped at a suspension point: its guards
\* are dropped with it
Cancel(l) ==
    /\ pc[l] \in {"lock_stream", "next", "lock_sink", "send_ready", "send_flush"}
    /\ pc' = [pc EXCEPT ![l] = "idle"]
    /\ result' = [result EXCEPT ![l] = "cancelled"]
    /\ streamLock' = IF streamLock = l THEN 0 ELSE streamLock
    /\ sinkLock' = IF sinkLock = l THEN 0 ELSE sinkLock
    /\ outcome' = IF cur[l] # 0 THEN [outcome EXCEPT ![cur[l]] = "cancelled"] ELSE outcome
    /\ cur' = [cur EXCEPT ![l] = 0]
    /\ ackbuf' = [ackbuf EXCEPT ![l] = << >>]
    /\ UNCHANGED << mactive, mnetid, inbound, spos, sclosed, sink, taken, handed,
                    returned >>
    /\ UNCHANGED << codecVars, hdlcVars, addrVars, nrziVars, crcVars, phyVars >>

MacNext ==
    \/ StreamClose
    \/ \E l \in Listeners :
        \/ Call(l)
        \/ LockStream(l)
        \/ StreamEnd(l)
        \/ TakePanic(l)
        \/ TakeParseError(l)
        \/ TakeWrongNetwork(l)
        \/ TakeAckDue(l)
        \/ TakeNotForUs(l)
        \/ TakeNoAck(l)
        \/ LockSink(l)
        \/ SendStart(l)
        \/ SendDone(l)
        \/ SendFail(l)
        \/ Cancel(l)

(***************************************************************************)
(* The address conversions as a state machine: an input is a callsign      *)
(* string, an address or an EUI-48; each step applies one conversion to    *)
(* what the steps before it produced.                                      *)
(***************************************************************************)
NoAddr == [status |-> "None", addr |-> HamAddr_EMPTY]

NoEui == [status |-> "None", eui |-> << >>]

NoText == [status |-> "None", text |-> << >>]

AddrIdle ==
    /\ adirect = NoEui
    /\ awide = NoEui
    /\ anarrow = NoEui
    /\ asrc = "none"
    /\ aflow = "none"
    /\ ain = << >>
    /\ ah = NoAddr
    /\ aeui = NoEui
    /\ aback = NoAddr
    /\ atext = NoText
    /\ are = NoAddr
    /\ atype = "None"
    /\ atrim = << >>
    /\ aagain = NoAddr

AddrInit ==
    /\ adirect = NoEui
    /\ awide = NoEui
    /\ anarrow = NoEui
    /\ aeui = NoEui
    /\ aback = NoAddr
    /\ atext = NoText
    /\ are = NoAddr
    /\ atype = "None"
    /\ atrim = << >>
    /\ aagain = NoAddr
    /\ \/ /\ asrc = "callsign"
          /\ ain \in CallsignStrings
          /\ aflow \in {"text", "eui48", "eui64", "widen"}
          /\ ah = NoAddr
       \/ /\ asrc = "addr"
          /\ ain \in HamAddrs
          /\ aflow \in {"eui48", "eui64", "shape", "widen"}
          /\ ah = [status |-> "Ok", addr |-> ain]
       \/ /\ asrc = "eui48"
          /\ ain \in Eui48s
          /\ aflow = "eui48"
          /\ ah = NoAddr

\* callsign.parse::<HamAddr>()
AddrParse ==
    /\ asrc = "callsign"
    /\ ah = NoAddr
    /\ ah' = HamAddr_try_from_callsign(ain)
    /\ UNCHANGED << asrc, aflow, ain, aeui, aback, atext, are, atype, atrim, aagain >>
    /\ UNCHANGED << codecVars, hdlcVars, macVars, nrziVars, crcVars, phyVars, euiVars >>

\* HamAddr::try_from(eui48) of the EUI-48 given
AddrFromEui48 ==
    /\ asrc = "eui48"
    /\ ah = NoAddr
    /\ ah' = HamAddr_try_from_eui48(ain)
    /\ UNCHANGED << asrc, aflow, ain, aeui, aback, atext, are, atype, atrim, aagain >>
    /\ UNCHANGED << codecVars, hdlcVars, macVars, nrziVars, crcVars, phyVars, euiVars >>

\* Eui48::try_from(addr)
AddrToEui48 ==
    /\ aflow = "eui48"
    /\ ah.status = "Ok"
    /\ aeui = NoEui
    /\ aeui' = Eui48_try_from(ah.addr)
    /\ UNCHANGED << asrc, aflow, ain, ah, aback, atext, are, atype, atrim, aagain >>
    /\ UNCHANGED << codecVars, hdlcVars, macVars, nrziVars, crcVars, phyVars, euiVars >>

\* Eui64::try_from(addr)
AddrToEui64 ==
    /\ aflow = "eui64"
    /\ ah.status = "Ok"
    /\ aeui = NoEui
    /\ aeui' = Eui64_try_from(ah.addr)
    /\ UNCHANGED << asrc, aflow, ain, ah, aback, atext, are, atype, atrim, aagain >>
    /\ UNCHANGED << codecVars, hdlcVars, macVars, nrziVars, crcVars, phyVars, euiVars >>

\* HamAddr::try_from(eui48) of the EUI-48 just made
AddrBackFromEui48 ==
    /\ aflow = "eui48"
    /\ aeui.status = "Ok"
    /\ aback = NoAddr
    /\ aback' = HamAddr_try_from_eui48(aeui.eui)
    /\ UNCHANGED << asrc, aflow, ain, ah, aeui, atext, are, atype, atrim, aagain >>
    /\ UNCHANGED << codecVars, hdlcVars, macVars, nrziVars, crcVars, phyVars, euiVars >>

\* HamAddr::try_from(eui64) of the EUI-64 just made
AddrBackFromEui64 ==
    /\ aflow = "eui64"
    /\ aeui.status = "Ok"
    /\ aback = NoAddr
    /\ aback' = HamAddr_try_from_eui64(aeui.eui)
    /\ UNCHANGED << asrc, aflow, ain, ah, aeui, atext, are, atype, atrim, aagain >>
    /\ UNCHANGED << codecVars, hdlcVars, macVars, nrziVars, crcVars, phyVars, euiVars >>

\* addr.to_string(): of the parsed address, or of the address that came back
\* from the EUI
AddrDisplay ==
    /\ atext = NoText
    /\ \/ /\ aflow = "text"
          /\ ah.status = "Ok"
          /\ atext' = HamAddr_Display(ah.addr)
       \/ /\ aflow \in {"eui48", "eui64"}
          /\ aback.status = "Ok"
          /\ atext' = HamAddr_Display(aback.addr)
    /\ UNCHANGED << asrc, aflow, ain, ah, aeui, aback, are, atype, atrim, aagain >>
    /\ UNCHANGED << codecVars, hdlcVars, macVars, nrziVars, crcVars, phyVars, euiVars >>

\* text.parse::<HamAddr>() of the rendering
AddrReparse ==
    /\ atext.status = "Ok"
    /\ are = NoAddr
    /\ are' = HamAddr_try_from_callsign(atext.text)
    /\ UNCHANGED << asrc, aflow, ain, ah, aeui, aback, atext, atype, atrim, aagain >>
    /\ UNCHANGED << codecVars, hdlcVars, macVars, nrziVars, crcVars, phyVars, euiVars >>

\* addr.get_type()
AddrGetType ==
    /\ aflow = "shape"
    /\ ah.status = "Ok"
    /\ atype = "None"
    /\ atype' = HamAddr_get_type(ah.addr)
    /\ UNCHANGED << asrc, aflow, ain, ah, aeui, aback, atext, are, atrim, aagain >>
    /\ UNCHANGED << codecVars, hdlcVars, macVars, nrziVars, crcVars, phyVars, euiVars >>

\* addr.as_trimmed_slice(), kept as Some(slice)
AddrTrim ==
    /\ aflow = "shape"
    /\ ah.status = "Ok"
    /\ atrim = << >>
    /\ atrim' = << HamAddr_as_trimmed_slice(ah.addr) >>
    /\ UNCHANGED << asrc, aflow, ain, ah, aeui, aback, atext, are, atype, aagain >>
    /\ UNCHANGED << codecVars, hdlcVars, macVars, nrziVars, crcVars, phyVars, euiVars >>

\* HamAddr::try_from_slice(slice) of the trimmed slice
AddrRebuild ==
    /\ atrim # << >>
    /\ aagain = NoAddr
    /\ aagain' = HamAddr_try_from_slice(atrim[1])
    /\ UNCHANGED << asrc, aflow, ain, ah, aeui, aback, atext, are, atype, atrim >>
    /\ UNCHANGED << codecVars, hdlcVars, macVars, nrziVars, crcVars, phyVars, euiVars >>

\* Eui64::try_from(addr), to be compared with the way through the EUI-48
AddrWidenDirect ==
    /\ aflow = "widen"
    /\ ah.status = "Ok"
    /\ adirect = NoEui
    /\ adirect' = Eui64_try_from(ah.addr)
    /\ UNCHANGED << awide, anarrow >>
    /\ UNCHANGED << asrc, aflow, ain, ah, aeui, aback, atext, are, atype, atrim, aagain >>
    /\ UNCHANGED << codecVars, hdlcVars, macVars, nrziVars, crcVars, phyVars >>

\* Eui48::try_from(addr) and, when it is Ok, Eui64::from of the EUI-48
AddrWidenVia48 ==
    /\ aflow = "widen"
    /\ ah.status = "Ok"
    /\ aeui = NoEui
    /\ \E e \in { Eui48_try_from(ah.addr) } :
          /\ aeui' = e
          /\ awide' = IF e.status = "Ok"
                      THEN [status |-> "Ok", eui |-> Eui64_from_eui48(e.eui)]
                      ELSE [status |-> "Err", eui |-> << >>]
    /\ UNCHANGED << adirect, anarrow >>
    /\ UNCHANGED << asrc, aflow, ain, ah, aback, atext, are, atype, atrim, aagain >>
    /\ UNCHANGED << codecVars, hdlcVars, macVars, nrziVars, crcVars, phyVars >>

\* try_to_eui48 of the EUI-64 that Eui64::try_from gave
AddrNarrow ==
    /\ aflow = "widen"
    /\ adirect.status = "Ok"
    /\ anarrow = NoEui
    /\ \E o \in { Eui64_try_to_eui48(adirect.eui) } :
          anarrow' = IF o = << >> THEN [status |-> "Nil", eui |-> << >>]
                     ELSE [status |-> "Some", eui |-> o[1]]
    /\ UNCHANGED << adirect, awide >>
    /\ UNCHANGED << asrc, aflow, ain, ah, aeui, aback, atext, are, atype, atrim, aagain >>
    /\ UNCHANGED << codecVars, hdlcVars, macVars, nrziVars, crcVars, phyVars >>

AddrNext ==
    \/ AddrWidenDirect
    \/ AddrWidenVia48
    \/ AddrNarrow
    \/ AddrParse
    \/ AddrFromEui48
    \/ AddrToEui48
    \/ AddrToEui64
    \/ AddrBackFromEui48
    \/ AddrBackFromEui64
    \/ AddrDisplay
    \/ AddrReparse
    \/ AddrGetType
    \/ AddrTrim
    \/ AddrRebuild

(***************************************************************************)
(* The NRZI pipe as a state machine: each step pushes one bit through the  *)
(* encoder chained into the decoder.                                       *)
(***************************************************************************)
NrziIdle ==
    /\ nrun = FALSE
    /\ nenc = NrziEncode_new
    /\ ndec = NrziDecode_new
    /\ nin = << >>
    /\ nout = << >>

NrziInit ==
    /\ nrun = TRUE
    /\ nenc = NrziEncode_new
    /\ ndec = NrziDecode_new
    /\ nin = << >>
    /\ nout = << >>

\* chained.filter(sample)
NrziFilter ==
    /\ nrun
    /\ Len(nin) < MaxBits
    /\ \E sample \in BOOLEAN :
         LET r == Chain_filter(nenc, ndec, sample)
         IN  /\ nenc' = r.encode
             /\ ndec' = r.decode
             /\ nin' = Append(nin, sample)
             /\ nout' = Append(nout, r.out)
    /\ UNCHANGED nrun
    /\ UNCHANGED << codecVars, hdlcVars, macVars, addrVars, crcVars, phyVars >>

NrziNext == NrziFilter

(***************************************************************************)
(* The CRC trailer as a state machine: each step is one call of next() on  *)
(* B.into_iter().append_crc(&X25).                                         *)
(***************************************************************************)
CrcIdle ==
    /\ krun = FALSE
    /\ kB = << >>
    /\ kiter = CrcAppendIter_Finished
    /\ kout = << >>
    /\ knone = 0

CrcInit ==
    /\ krun = TRUE
    /\ kB \in CrcInputs
    /\ kiter = CrcAppendIter_new(kB)
    /\ kout = << >>
    /\ knone = 0

\* iter.next(): Some(byte) is collected, None is counted
CrcCall ==
    /\ krun
    /\ knone < MaxNone
    /\ \E r \in { CrcAppendIter_next(kiter) } :
         /\ kiter' = r.self
         /\ IF r.item = << >>
            THEN knone' = knone + 1 /\ kout' = kout
            ELSE knone' = knone /\ kout' = Append(kout, r.item[1])
    /\ UNCHANGED << krun, kB >>
    /\ UNCHANGED << codecVars, hdlcVars, macVars, addrVars, nrziVars, phyVars >>

CrcNext == CrcCall

(***************************************************************************)
(* Bell-202 sender: a Sink in front of the frame queue that the audio      *)
(* output callback drains.  A waker is "noop" or "task" (the waker of the  *)
(* one task that sends); a timer is "Init" (created, never polled),        *)
(* "Running" (polled: started, the task's waker registered) or "Expired".  *)
(***************************************************************************)
\* mpsc::channel::<Vec<u8>>(1): the buffer of the frame queue
SENDFRAME_BUFFER == 1

\* samples the encoder yields for one frame
SamplesPerFrame == 2

\* longest sample buffer handed to the output callback
MaxData == 2

\* frames the sending task offers
MaxSends == 3

\* Bell202Sender::new_with_config: the fields of the sender
Bell202Sender_new ==
    [is_channel_clear |-> TRUE, channel_clear_waker |-> "noop", cca_backoff_timer |-> << >>]

\* mpsc::channel(1): empty queue, the sender not parked, no waker registered
sendframe_new == [queue |-> << >>, is_parked |-> FALSE, task |-> FALSE]

\* the encoder built in new_with_config: the silent encoding of no frame
encoder_new == [frame |-> 0, left |-> SamplesPerFrame]

\* Bell202Sender::set_channel_clear: the flag is stored, the stored waker is
\* replaced by a no-op waker and woken
Bell202Sender_set_channel_clear(this, is_channel_clear) ==
    [self |-> [this EXCEPT !.is_channel_clear = is_channel_clear,
                           !.channel_clear_waker = "noop"],
     wake |-> this.channel_clear_waker = "task"]

\* poll of the back-off timer: the first poll starts it
Timer_poll(timer) ==
    IF timer = "Expired" THEN [ret |-> "Ready", timer |-> "Expired"]
    ELSE [ret |-> "Pending", timer |-> "Running"]

\* Sender::poll_ready of the frame queue: pending while the sender is parked,
\* with the task's waker registered
Sender_poll_ready(ch) ==
    IF ch.is_parked THEN [ret |-> "Pending", ch |-> [ch EXCEPT !.task = TRUE]]
    ELSE [ret |-> "Ready", ch |-> ch]

\* Sender::try_send on a channel made by mpsc::channel(buffer): refused while
\* the sender is parked; the sender parks itself when the queue then holds
\* more than buffer messages, so one sender fills buffer + 1 slots
Sender_try_send(ch, buffer, item) ==
    IF ch.is_parked THEN [ret |-> "Err", ch |-> ch]
    ELSE [ret |-> "Ok",
          ch |-> [queue |-> Append(ch.queue, item),
                  is_parked |-> Len(ch.queue) + 1 > buffer,
                  task |-> IF Len(ch.queue) + 1 > buffer THEN FALSE ELSE ch.task]]

\* Sender::start_send of the frame queue
Sender_start_send(ch, item) == Sender_try_send(ch, SENDFRAME_BUFFER, item)

\* poll_ready that leaves channel_clear_waker alone when the channel is busy
Bell202Sender_poll_ready_no_waker(this, ch) ==
    LET polled == IF this.cca_backoff_timer # << >>
                  THEN Timer_poll(this.cca_backoff_timer[1])
                  ELSE [ret |-> "Ready", timer |-> "Expired"]
    IN  IF this.cca_backoff_timer # << >> /\ polled.ret = "Pending"
        THEN [ret |-> "Pending",
              self |-> [this EXCEPT !.cca_backoff_timer = << polled.timer >>],
              ch |-> ch]
        ELSE IF this.is_channel_clear
        THEN [ret |-> Sender_poll_ready(ch).ret,
              self |-> [this EXCEPT !.cca_backoff_timer = << >>],
              ch |-> Sender_poll_ready(ch).ch]
        ELSE [ret |-> "Pending",
              self |-> [this EXCEPT !.cca_backoff_timer = << "Init" >>],
              ch |-> ch]

\* Bell202Sender::poll_ready
Bell202Sender_poll_ready(this, ch) ==
    LET polled == IF this.cca_backoff_timer # << >>
                  THEN Timer_poll(this.cca_backoff_timer[1])
                  ELSE [ret |-> "Ready", timer |-> "Expired"]
    IN  IF this.cca_backoff_timer # << >> /\ polled.ret = "Pending"
        THEN [ret |-> "Pending",
              self |-> [this EXCEPT !.cca_backoff_timer = << polled.timer >>],
              ch |-> ch]
        ELSE IF this.is_channel_clear
        THEN [ret |-> Sender_poll_ready(ch).ret,
              self |-> [this EXCEPT !.cca_backoff_timer = << >>],
              ch |-> Sender_poll_ready(ch).ch]
        ELSE [ret |-> "Pending",
              self |-> [this EXCEPT !.cca_backoff_timer = << "Init" >>,
                                    !.channel_clear_waker = "task"],
              ch |-> ch]

\* start_send that hands the frame to the queue whatever the flag says
Bell202Sender_start_send_unchecked(this, ch, item) == Sender_start_send(ch, item)

\* Bell202Sender::start_send
Bell202Sender_start_send(this, ch, item) ==
    IF this.is_channel_clear THEN Sender_start_send(ch, item)
    ELSE [ret |-> "Err", ch |-> ch]

\* one sample of the output callback: the encoder's next sample, or the
\* first sample of the next queued frame, or silence
output_sample(st) ==
    IF st.encoder.left > 0
    THEN [st EXCEPT !.encoder.left = @ - 1]
    ELSE IF st.ch.queue # << >>
    THEN [encoder |-> [frame |-> Head(st.ch.queue), left |-> SamplesPerFrame - 1],
          ch |-> [queue |-> Tail(st.ch.queue), is_parked |-> FALSE, task |-> FALSE],
          wake |-> st.wake \/ (st.ch.is_parked /\ st.ch.task)]
    ELSE st

\* the output callback over a buffer of n samples
RECURSIVE output_callback(_, _)
output_callback(st, n) ==
    IF n = 0 THEN st ELSE output_callback(output_sample(st), n - 1)

(***************************************************************************)
(* The Bell-202 sender as a state machine: one task sends frames through   *)
(* the Sink, carrier sense sets the flag, the back-off timer expires and   *)
(* the output callback drains the frame queue.                             *)
(***************************************************************************)
SenderIdle ==
    /\ sender = Bell202Sender_new
    /\ sendframe = sendframe_new
    /\ encoder = encoder_new
    /\ txpc = "off"
    /\ txn = 0
    /\ txwoken = FALSE

SenderInit ==
    /\ sender = Bell202Sender_new
    /\ sendframe = sendframe_new
    /\ encoder = encoder_new
    /\ txpc = "idle"
    /\ txn = 0
    /\ txwoken = FALSE

\* carrier sense reports the channel clear or busy
SetChannelClear ==
    /\ txpc # "off"
    /\ \E b \in BOOLEAN :
        \E r \in { Bell202Sender_set_channel_clear(sender, b) } :
            /\ sender' = r.self
            /\ txwoken' = (txwoken \/ r.wake)
    /\ UNCHANGED << sendframe, encoder, txpc, txn >>
    /\ UNCHANGED << codecVars, hdlcVars, macVars, addrVars, nrziVars, crcVars, receiverVars, decodeVars, modemVars, dspVars >>

\* the task is polled: first poll of the next send, or a poll while pending
PollReady ==
    /\ txpc \in {"idle", "pending", "committed", "failed"}
    /\ txpc # "pending" => txn < MaxSends
    /\ \E r \in { Bell202Sender_poll_ready(sender, sendframe) } :
        /\ sender' = r.self
        /\ sendframe' = r.ch
        /\ txpc' = IF r.ret = "Ready" THEN "ready" ELSE "pending"
    /\ txwoken' = FALSE
    /\ UNCHANGED << encoder, txn >>
    /\ UNCHANGED << codecVars, hdlcVars, macVars, addrVars, nrziVars, crcVars, receiverVars, decodeVars, modemVars, dspVars >>

\* the task, told Ready, hands over its frame
StartSend ==
    /\ txpc = "ready"
    /\ \E r \in { Bell202Sender_start_send(sender, sendframe, txn + 1) } :
        /\ sendframe' = r.ch
        /\ txpc' = IF r.ret = "Ok" THEN "committed" ELSE "failed"
    /\ txn' = txn + 1
    /\ UNCHANGED << sender, encoder, txwoken >>
    /\ UNCHANGED << codecVars, hdlcVars, macVars, addrVars, nrziVars, crcVars, receiverVars, decodeVars, modemVars, dspVars >>

\* the back-off timer expires and wakes the task that polled it
TimerFire ==
    /\ sender.cca_backoff_timer = << "Running" >>
    /\ sender' = [sender EXCEPT !.cca_backoff_timer = << "Expired" >>]
    /\ txwoken' = TRUE
    /\ UNCHANGED << sendframe, encoder, txpc, txn >>
    /\ UNCHANGED << codecVars, hdlcVars, macVars, addrVars, nrziVars, crcVars, receiverVars, decodeVars, modemVars, dspVars >>

\* the audio device asks for a buffer of samples
OutputCallback ==
    /\ txpc # "off"
    /\ \E n \in 1..MaxData :
        \E r \in { output_callback([encoder |-> encoder, ch |-> sendframe, wake |-> FALSE], n) } :
            /\ encoder' = r.encoder
            /\ sendframe' = r.ch
            /\ txwoken' = (txwoken \/ r.wake)
    /\ UNCHANGED << sender, txpc, txn >>
    /\ UNCHANGED << codecVars, hdlcVars, macVars, addrVars, nrziVars, crcVars, receiverVars, decodeVars, modemVars, dspVars >>

SenderNext == SetChannelClear \/ PollReady \/ StartSend \/ TimerFire \/ OutputCallback

(***************************************************************************)
(* Bell-202 receiver: the audio input callback checks the CRC of every     *)
(* frame the decoder yields and offers it to the frame channel.            *)
(***************************************************************************)
\* mpsc::channel(10): the buffer of the frame channel
RECVFRAME_BUFFER == 10

\* the residue X25.checksum is compared with
X25_RESIDUE == 3911

\* frames the decoder yields in one run
MaxDecoded == 13

\* most frames the decoder yields within one callback
MaxPerCallback == 2

\* the k-th frame off the air: the body << k >> with its X.25 trailer when
\* intact, with a damaged trailer otherwise
RxFrame(k, intact) ==
    IF intact THEN append_crc(<< k >>)
    ELSE << k, X25(<< k >>) % 256, ((X25(<< k >>) \div 256) + 1) % 256 >>

\* what one callback can decode after k frames: up to MaxPerCallback frames
RxBursts(k) ==
    { << RxFrame(k + 1, a) >> : a \in BOOLEAN }
    \cup { << RxFrame(k + 1, a), RxFrame(k + 2, b) >> : a \in BOOLEAN, b \in BOOLEAN }

\* mpsc::channel(10)
recvframe_new == [queue |-> << >>, is_parked |-> FALSE, task |-> FALSE]

\* the callback body with the checksum compared with zero
input_frame_zero_residue(st, frame) ==
    IF X25(frame) = 0
    THEN LET sent == Sender_try_send(st.ch, RECVFRAME_BUFFER, frame)
         IN  [ch |-> sent.ch,
              log |-> Append(st.log, [frame |-> frame,
                                      event |-> IF sent.ret = "Err" THEN "Dropped packet"
                                                ELSE "Forwarded"])]
    ELSE [ch |-> st.ch, log |-> Append(st.log, [frame |-> frame, event |-> "Bad CRC"])]

\* the body of the input callback for one decoded frame: the frame goes to
\* try_send as it was decoded, and the log tells what was done with it
input_frame(st, frame) ==
    IF X25(frame) = X25_RESIDUE
    THEN LET sent == Sender_try_send(st.ch, RECVFRAME_BUFFER, frame)
         IN  [ch |-> sent.ch,
              log |-> Append(st.log, [frame |-> frame,
                                      event |-> IF sent.ret = "Err" THEN "Dropped packet"
                                                ELSE "Forwarded"])]
    ELSE [ch |-> st.ch, log |-> Append(st.log, [frame |-> frame, event |-> "Bad CRC"])]

\* the input callback over the frames its samples decode to
RECURSIVE input_callback(_, _)
input_callback(st, frames) ==
    IF frames = << >> THEN st
    ELSE input_callback(CHOOSE r \in { input_frame(st, Head(frames)) } : TRUE, Tail(frames))

\* Receiver::poll_next with a message queued: the message leaves the queue
\* and the parked sender is released
Receiver_next_message(ch) ==
    [item |-> Head(ch.queue),
     ch |-> [queue |-> Tail(ch.queue), is_parked |-> FALSE, task |-> FALSE]]

(***************************************************************************)
(* The Bell-202 receiver as a state machine: the audio device delivers     *)
(* samples, the stream's consumer takes frames.                            *)
(***************************************************************************)
ReceiverIdle ==
    /\ recvframe = recvframe_new
    /\ rxpc = "off"
    /\ rxn = 0
    /\ rxlog = << >>
    /\ rxlast = << >>

ReceiverInit ==
    /\ recvframe = recvframe_new
    /\ rxpc = "on"
    /\ rxn = 0
    /\ rxlog = << >>
    /\ rxlast = << >>

\* the audio device delivers a buffer of samples that decode to some frames
InputCallback ==
    /\ rxpc = "on"
    /\ \E frames \in RxBursts(rxn) :
        /\ rxn + Len(frames) <= MaxDecoded
        /\ \E r \in { input_callback([ch |-> recvframe, log |-> << >>], frames) } :
            /\ recvframe' = r.ch
            /\ rxlog' = r.log
        /\ rxn' = rxn + Len(frames)
    /\ UNCHANGED << rxpc, rxlast >>
    /\ UNCHANGED << codecVars, hdlcVars, macVars, addrVars, nrziVars, crcVars, senderVars, decodeVars, modemVars, dspVars >>

\* the consumer of the stream takes the next frame
RecvNext ==
    /\ rxpc = "on"
    /\ recvframe.queue # << >>
    /\ \E r \in { Receiver_next_message(recvframe) } :
        /\ recvframe' = r.ch
        /\ rxlast' = << r.item >>
    /\ UNCHANGED << rxpc, rxn, rxlog >>
    /\ UNCHANGED << codecVars, hdlcVars, macVars, addrVars, nrziVars, crcVars, senderVars, decodeVars, modemVars, dspVars >>

ReceiverNext == InputCallback \/ RecvNext

(***************************************************************************)
(* The HDLC decoder on its own: fed any bits, and fed a carrier that comes *)
(* and goes.                                                               *)
(***************************************************************************)
\* the longest lead-in of free bits before the carrier is watched
MaxLeadIn == 3

\* None inputs fed in a row
MaxNones == 23

\* Some inputs fed between the None inputs
MaxSome == 2

\* lead-ins: any bits up to MaxLeadIn, five 1s, six 1s, each on its own or
\* after a marker
LeadIns ==
    LET tails == UNION { [1..n -> BOOLEAN] : n \in 0..MaxLeadIn }
                 \cup { << TRUE, TRUE, TRUE, TRUE, TRUE >>,
                        << TRUE, TRUE, TRUE, TRUE, TRUE, TRUE >> }
        marker == << FALSE, TRUE, TRUE, TRUE, TRUE, TRUE, TRUE, FALSE >>
    IN  tails \cup { marker \o t : t \in tails }

DecodeIdle ==
    /\ dpc = "off"
    /\ dec = HdlcDecode_default
    /\ dprev = HdlcDecode_default
    /\ din = << >>
    /\ dout = << >>
    /\ dnones = 0
    /\ dsome = 0
    /\ drun = FALSE

\* a fresh decoder
DecodeInit ==
    /\ dpc = "bits"
    /\ dec = HdlcDecode_default
    /\ dprev = HdlcDecode_default
    /\ din = << >>
    /\ dout = << >>
    /\ dnones = 0
    /\ dsome = 0
    /\ drun = FALSE

\* a decoder that has taken in a lead-in
CarrierInit ==
    /\ dpc = "carrier"
    /\ \E bits \in LeadIns : dec = HdlcDecode_after(HdlcDecode_default, bits)
    /\ dprev = dec
    /\ din = << >>
    /\ dout = << >>
    /\ dnones = 0
    /\ dsome = 0
    /\ drun = FALSE

\* Filter<bool>::filter is called with a bit
FeedBit ==
    /\ dpc = "bits"
    /\ \E sample \in BOOLEAN :
        \E r \in { HdlcDecode_filter(dec, sample) } :
            /\ dec' = r.self
            /\ dout' = r.out
            /\ din' = << sample >>
    /\ dprev' = dec
    /\ UNCHANGED << dpc, dnones, dsome, drun >>
    /\ UNCHANGED << codecVars, hdlcVars, macVars, addrVars, nrziVars, crcVars, senderVars, receiverVars, modemVars, dspVars >>

\* Filter<Option<bool>>::filter is called with a bit or with None
FeedOption ==
    /\ dpc = "carrier"
    /\ \E sample \in { << >>, << FALSE >>, << TRUE >> } :
        /\ sample = << >> => dnones < MaxNones
        /\ sample # << >> => dsome < MaxSome
        /\ \E r \in { HdlcDecode_filter_option(dec, sample) } :
            /\ dec' = r.self
            /\ dout' = r.out
        /\ din' = sample
        /\ dnones' = IF sample = << >> THEN dnones + 1 ELSE 0
        /\ dsome' = IF sample = << >> THEN dsome ELSE dsome + 1
    /\ dprev' = dec
    /\ UNCHANGED << dpc, drun >>
    /\ UNCHANGED << codecVars, hdlcVars, macVars, addrVars, nrziVars, crcVars, senderVars, receiverVars, modemVars, dspVars >>

\* the None inputs in a row that make a carrier loss
CARRIER_LOSS == 21

\* a fresh decoder to be fed anything
RunningInit ==
    /\ dpc = "any"
    /\ dec = HdlcDecode_default
    /\ dprev = HdlcDecode_default
    /\ din = << >>
    /\ dout = << >>
    /\ dnones = 0
    /\ dsome = 0
    /\ drun = FALSE

\* Filter<Option<bool>>::filter is called with a bit or with None, with no
\* bound on either; drun and dnones follow the inputs and the outputs
FeedAny ==
    /\ dpc = "any"
    /\ \E sample \in { << >>, << FALSE >>, << TRUE >> } :
        LET lost == sample = << >> /\ dnones + 1 = CARRIER_LOSS
        IN  /\ \E r \in { HdlcDecode_filter_option(dec, sample) } :
                /\ dec' = r.self
                /\ dout' = r.out
                /\ drun' = IF r.out = << FrameMarker >> THEN TRUE
                           ELSE IF r.out = << DecodeError >> \/ lost THEN FALSE
                           ELSE drun
            /\ din' = sample
            /\ dnones' = IF sample # << >> \/ lost THEN 0 ELSE dnones + 1
    /\ dprev' = dec
    /\ UNCHANGED << dpc, dsome >>
    /\ UNCHANGED << codecVars, hdlcVars, macVars, addrVars, nrziVars, crcVars, senderVars, receiverVars, modemVars, dspVars >>

RunningNext == FeedAny

DecodeNext == FeedBit

CarrierNext == FeedOption

(***************************************************************************)
(* The Bell-202 modem loop: bell_202_encode feeds bell_202_decoder at the   *)
(* same sample rate.  The stages that work on f32 samples (FM modulator,   *)
(* decimator, discriminator, FSK slicer, bit sampler) are taken as an      *)
(* ideal line: every NRZI level the encoder emits reaches the NRZI decoder *)
(* once, as Some(level), unchanged.  What is modelled as the code computes *)
(* it is the construction of the decoder and the digital stages on both    *)
(* sides of the line.                                                      *)
(***************************************************************************)
BELL202_OPTIMAL_SAMPLE_RATE == 7200

\* the sample rates tried: both ends of the range, the optimal rate, and the
\* rates around the limit of the decoder
ModemRates ==
    { 6000, BELL202_OPTIMAL_SAMPLE_RATE, 9600, 11000, 13900, 14000, 14100, 14900 }

ModemInputs == { << >>, << 126 >>, << 255, 0 >> }

\* bell_202_encode: bits_lsb, hdlc_encode, nrzi_encode
bell_202_encode(B) == [hdlc |-> hdlc_encode(bits_lsb(B)), nrzi |-> NrziEncode_new]

\* the next NRZI level of the encoder, an Option<bool>
bell_202_encode_next(e) ==
    LET h == HdlcEncoderIter_next(e.hdlc)
    IN  IF h.item = << >> THEN [item |-> << >>, self |-> e]
        ELSE LET n == NrziEncode_filter(e.nrzi, h.item[1])
             IN  [item |-> << n.out >>, self |-> [hdlc |-> h.self, nrzi |-> n.last]]

\* bell_202_decoder: the assertion on the sample rate is compiled in unless
\* the build has cfg(test); past it, the chain of filters in its first state
bell_202_decoder(rate, test) ==
    IF ~test /\ ~(rate <= 14000) THEN [status |-> "Panic"]
    ELSE [status |-> "Ok",
          nrzi |-> NrziDecode_new, hdlc |-> HdlcDecode_default, frame |-> << >>]

\* the decoder's filter from the bit sampler's output on: NrziDecode under
\* optional(), HdlcDecode, FrameCollector
bell_202_decoder_filter(d, sample) ==
    LET n == IF sample = << >> THEN [last |-> d.nrzi, out |-> << >>]
             ELSE LET r == NrziDecode_filter(d.nrzi, sample[1])
                  IN  [last |-> r.last, out |-> << r.out >>]
        h == HdlcDecode_filter_option(d.hdlc, n.out)
        c == FrameCollector_filter(d.frame, h.out)
    IN  [out |-> c.out,
         self |-> [d EXCEPT !.nrzi = n.last, !.hdlc = h.self, !.frame = c.self]]

ModemIdle ==
    /\ bpc = "off"
    /\ sample_rate = BELL202_OPTIMAL_SAMPLE_RATE
    /\ cfg_test = FALSE
    /\ bB = << >>
    /\ bencode = bell_202_encode(<< >>)
    /\ bdecoder = << >>
    /\ bfirst = << >>

\* bell_202_encode has been called; no decoder yet
ModemInit ==
    /\ bpc = "encoded"
    /\ sample_rate \in ModemRates
    /\ cfg_test \in BOOLEAN
    /\ bB \in ModemInputs
    /\ bencode = bell_202_encode(bB)
    /\ bdecoder = << >>
    /\ bfirst = << >>

\* bell_202_decoder(sample_rate) is called; a failed assertion unwinds
BuildDecoder ==
    /\ bpc = "encoded"
    /\ \E d \in { bell_202_decoder(sample_rate, cfg_test) } :
          IF d.status = "Panic"
          THEN /\ bpc' = "panicked"
               /\ UNCHANGED bdecoder
          ELSE /\ bpc' = "run"
               /\ bdecoder' = << d >>
    /\ UNCHANGED << sample_rate, cfg_test, bB, bencode, bfirst >>
    /\ UNCHANGED << codecVars, hdlcVars, macVars, addrVars, nrziVars, crcVars, senderVars, receiverVars, decodeVars, dspVars >>

\* the encoder emits a level and the decoder filters it; the run stops at
\* the first frame the decoder yields
ModemFeed ==
    /\ bpc = "run"
    /\ LET e == bell_202_encode_next(bencode)
       IN  /\ e.item # << >>
           /\ LET d == bell_202_decoder_filter(bdecoder[1], e.item)
              IN  /\ bencode' = e.self
                  /\ bdecoder' = << d.self >>
                  /\ bfirst' = d.out
                  /\ bpc' = IF d.out # << >> THEN "done" ELSE "run"
    /\ UNCHANGED << sample_rate, cfg_test, bB >>
    /\ UNCHANGED << codecVars, hdlcVars, macVars, addrVars, nrziVars, crcVars, senderVars, receiverVars, decodeVars, dspVars >>

\* the encoder is exhausted and the decoder has yielded no frame
ModemEnd ==
    /\ bpc = "run"
    /\ bell_202_encode_next(bencode).item = << >>
    /\ bpc' = "silent"
    /\ UNCHANGED << sample_rate, cfg_test, bB, bencode, bdecoder, bfirst >>
    /\ UNCHANGED << codecVars, hdlcVars, macVars, addrVars, nrziVars, crcVars, senderVars, receiverVars, decodeVars, dspVars >>

ModemNext == BuildDecoder \/ ModemFeed \/ ModemEnd

(***************************************************************************)
(* The frame collector fed any sequence of Option<FrameSignal>.            *)
(***************************************************************************)
MaxSignals == 6

\* the inputs of the collector: None and every kind of FrameSignal
CollectorSignals ==
    { << >>, << FrameMarker >>, << DecodeError >>, << Octet(0) >>, << Octet(255) >> }

CollectorIdle ==
    /\ fpc = "off"
    /\ fframe = << >>
    /\ fsample = << >>
    /\ fout = << >>
    /\ fsince = << >>
    /\ fn = 0

\* FrameCollector::default
CollectorInit ==
    /\ fpc = "on"
    /\ fframe = << >>
    /\ fsample = << >>
    /\ fout = << >>
    /\ fsince = << >>
    /\ fn = 0

\* one call of FrameCollector::filter; fsince follows the inputs and the
\* outputs, not the collector's buffer
CollectorFilter ==
    /\ fpc = "on"
    /\ fn < MaxSignals
    /\ \E sample \in CollectorSignals :
          LET c == FrameCollector_filter(fframe, sample)
          IN  /\ fframe' = c.self
              /\ fout' = c.out
              /\ fsample' = sample
              /\ fsince' = IF c.out # << >> \/ sample = << DecodeError >> THEN << >>
                           ELSE IF sample # << >> /\ sample[1].kind = "Octet"
                           THEN Append(fsince, sample[1].value)
                           ELSE fsince
    /\ fn' = fn + 1
    /\ UNCHANGED fpc
    /\ UNCHANGED << restVars, fskVars, samplerVars, lossVars >>

CollectorNext == CollectorFilter

(***************************************************************************)
(* The FSK slicer (filter/fsk_demod.rs).  A float is a record: class       *)
(* "NaN", "Inf" (v its sign) or "Finite" (v its value).  Frequencies are   *)
(* counted in units of 1/sample_rate cycles per sample times the sample    *)
(* rate, that is in Hz, so that the mark and space of Bell 202 are the     *)
(* integers 1200 and 2200.  The slicer only compares and takes signs, and  *)
(* the sign of a float difference or product is the sign of the exact one, *)
(* so integers carry what filter computes.  scale is kept as the fraction  *)
(* 2 / (one - zero).                                                       *)
(***************************************************************************)
NaN == [class |-> "NaN", v |-> 0]

Inf(sign) == [class |-> "Inf", v |-> sign]

Finite(x) == [class |-> "Finite", v |-> x]

\* f32::is_finite
is_finite(x) == x.class = "Finite"

\* x <= T::ZERO for a float x: false for NaN
le_zero(x) == x.class # "NaN" /\ x.v <= 0

\* FskDemod::new for even zero + one and zero # one
FskDemod_new(zero, one) ==
    [offset |-> (zero + one) \div 2,
     scale |-> [num |-> 2, den |-> one - zero],
     last_mag |-> 0]

\* FskDemod::filter: the Option<bool>; the filter keeps no state
FskDemod_filter(this, sample) ==
    IF ~is_finite(sample[1]) \/ le_zero(sample[1]) THEN << >>
    ELSE LET v == (sample[1].v - this.offset) * this.scale.num * this.scale.den
         IN  << v > 0 >>

MaxFskCalls == 2

\* the slicers built: bell_202_decoder's FskDemod::new(space, mark) and the
\* FskDemod::new(0.2, 0.3) of tests::fsk_demod_f32 at a sample rate of 1000
FskPairs == { << 2200, 1200 >>, << 200, 300 >> }

FskFrequencies ==
    { NaN, Inf(-1), Inf(1) } \cup
    { Finite(x) : x \in { -1200, 0, 1, 200, 249, 250, 251, 300, 1200, 1699, 1700, 1701, 2200 } }

FskMagnitudes == { NaN, Inf(1) } \cup { Finite(x) : x \in { -1, 0, 1, 4 } }

FskIdle ==
    /\ fskpc = "off"
    /\ fsk = FskDemod_new(2200, 1200)
    /\ fsksample = << Finite(0), Finite(0) >>
    /\ fskout = << >>
    /\ fskn = 0

FskInit ==
    /\ fskpc = "on"
    /\ \E pair \in FskPairs : fsk = FskDemod_new(pair[1], pair[2])
    /\ fsksample = << Finite(0), Finite(0) >>
    /\ fskout = << >>
    /\ fskn = 0

\* one call of FskDemod::filter
FskFilter ==
    /\ fskpc = "on"
    /\ fskn < MaxFskCalls
    /\ \E f \in FskFrequencies, mag \in FskMagnitudes :
          /\ fsksample' = << f, mag >>
          /\ fskout' = FskDemod_filter(fsk, << f, mag >>)
    /\ fskn' = fskn + 1
    /\ UNCHANGED << fskpc, fsk >>
    /\ UNCHANGED << restVars, collectorVars, samplerVars, lossVars >>

FskNext == FskFilter

(***************************************************************************)
(* The bit sampler (filter/hdlc.rs) fed a line on which every bit is held  *)
(* for sample_rate / bit_rate samples.                                     *)
(***************************************************************************)
MaxSampledBits == 4

\* (sample_rate, bit_rate): Bell 202 at 7200 Hz, the pair of
\* tests::bit_extractor_decode, and pairs with ratios 4 and 5
SamplerRates == { << 7200, 1200 >>, << 30, 10 >>, << 20, 5 >>, << 35, 7 >> }

\* BitSampler::new
BitSampler_new(rate, bit_rate) ==
    [sample_rate |-> rate, bit_rate |-> bit_rate, accumulator |-> 0, last_bit |-> FALSE]

\* a sampler that waits a whole bit period after a transition
BitSampler_filter_full_period(this, sample) ==
    IF sample = << >>
    THEN [out |-> << >>, self |-> [this EXCEPT !.accumulator = 0, !.last_bit = FALSE]]
    ELSE IF this.last_bit = sample[1]
    THEN IF this.accumulator < this.bit_rate
         THEN [out |-> sample,
               self |-> [this EXCEPT !.accumulator = @ + this.sample_rate - this.bit_rate]]
         ELSE [out |-> << >>, self |-> [this EXCEPT !.accumulator = @ - this.bit_rate]]
    ELSE [out |-> << >>,
          self |-> [this EXCEPT !.accumulator = this.sample_rate,
                                !.last_bit = sample[1]]]

\* <BitSampler as Filter<Option<bool>>>::filter: the Option<bool> and the new
\* sampler.  The accumulator is a u32: it is below bit_rate when sample_rate -
\* bit_rate is added and at least bit_rate when bit_rate is subtracted, so it
\* stays in 0 .. sample_rate - 1 and never wraps.
BitSampler_filter(this, sample) ==
    IF sample = << >>
    THEN [out |-> << >>, self |-> [this EXCEPT !.accumulator = 0, !.last_bit = FALSE]]
    ELSE IF this.last_bit = sample[1]
    THEN IF this.accumulator < this.bit_rate
         THEN [out |-> sample,
               self |-> [this EXCEPT !.accumulator = @ + this.sample_rate - this.bit_rate]]
         ELSE [out |-> << >>, self |-> [this EXCEPT !.accumulator = @ - this.bit_rate]]
    ELSE [out |-> << >>,
          self |-> [this EXCEPT !.accumulator = this.sample_rate \div 2,
                                !.last_bit = sample[1]]]

\* the samples a bit is held for
SamplesPerBit == bs.sample_rate \div bs.bit_rate

SamplerIdle ==
    /\ bspc = "off"
    /\ bs = BitSampler_new(7200, 1200)
    /\ bsin = << >>
    /\ bsheld = 0
    /\ bsout = << >>
    /\ bslast = 0
    /\ bsconst = FALSE

SamplerInit ==
    /\ bspc = "on"
    /\ \E pair \in SamplerRates : bs = BitSampler_new(pair[1], pair[2])
    /\ bsin = << >>
    /\ bsheld = 0
    /\ bsout = << >>
    /\ bslast = 0
    /\ bsconst = FALSE

\* the line puts the first sample of a new bit, or one more sample of the bit
\* it holds, into BitSampler::filter
SamplerFilter ==
    /\ bspc = "on"
    /\ \E bit \in BOOLEAN :
          LET fresh == bsin = << >> \/ bsheld = SamplesPerBit
              sample == IF fresh THEN bit ELSE bsin[Len(bsin)]
              changed == bsin # << >> /\ sample # bsin[Len(bsin)]
              b == BitSampler_filter(bs, << sample >>)
          IN  /\ fresh \/ bit
              /\ fresh => Len(bsin) < MaxSampledBits
              /\ bs' = b.self
              /\ bsin' = IF fresh THEN Append(bsin, sample) ELSE bsin
              /\ bsheld' = IF fresh THEN 1 ELSE bsheld + 1
              /\ bsout' = bsout \o b.out
              /\ bslast' = IF b.out # << >> THEN 0 ELSE bslast + 1
              /\ bsconst' = IF b.out # << >> THEN TRUE ELSE bsconst /\ ~changed
    /\ UNCHANGED bspc
    /\ UNCHANGED << restVars, collectorVars, fskVars, lossVars >>

SamplerNext == SamplerFilter

(***************************************************************************)
(* A frame interrupted by a loss of carrier: the encoder of a first frame  *)
(* feeds HdlcDecode chained to FrameCollector, the carrier is lost while   *)
(* the body is on the line, None inputs follow, and then a second frame is *)
(* sent in full.                                                           *)
(***************************************************************************)
\* the None inputs fed at most before the second frame starts
MaxGap == 22

\* the frames that are interrupted
LossFirsts == { << 1, 2 >>, << 255, 126, 3 >> }

\* the frame sent after the gap
LossSecond == << 240 >>

LossIdle ==
    /\ clpc = "off"
    /\ clB = << >>
    /\ clenc = hdlc_encode(bits_lsb(<< >>))
    /\ cldec = HdlcDecode_default
    /\ clframe = << >>
    /\ clgap = 0
    /\ clkept = << >>
    /\ clbits = 0
    /\ clframes = << >>

LossInit ==
    /\ clpc = "first"
    /\ clB \in LossFirsts
    /\ clenc = hdlc_encode(bits_lsb(clB))
    /\ cldec = HdlcDecode_default
    /\ clframe = << >>
    /\ clgap = 0
    /\ clkept = << >>
    /\ clbits = 0
    /\ clframes = << >>

\* the encoder puts a bit on the line; the decoder filters Some(bit) and the
\* collector filters the decoder's output
LossFeed ==
    /\ clpc \in {"first", "second"}
    /\ LET e == HdlcEncoderIter_next(clenc)
       IN  /\ e.item # << >>
           /\ LET d == HdlcDecode_filter_option(cldec, e.item)
                  c == FrameCollector_filter(clframe, d.out)
              IN  /\ clenc' = e.self
                  /\ cldec' = d.self
                  /\ clframe' = c.self
                  /\ clframes' = clframes \o c.out
    /\ clbits' = IF clpc = "second" THEN clbits + 1 ELSE clbits
    /\ UNCHANGED << clpc, clB, clgap, clkept >>
    /\ UNCHANGED << restVars, collectorVars, fskVars, samplerVars >>

\* the carrier is lost while the body of the first frame is on the line
LossOfCarrier ==
    /\ clpc = "first"
    /\ clenc.state = "Body"
    /\ clpc' = "gap"
    /\ clkept' = clframe
    /\ UNCHANGED << clB, clenc, cldec, clframe, clgap, clbits, clframes >>
    /\ UNCHANGED << restVars, collectorVars, fskVars, samplerVars >>

\* no carrier: the decoder filters None and the collector filters the
\* decoder's output
LossNone ==
    /\ clpc = "gap"
    /\ clgap < MaxGap
    /\ LET d == HdlcDecode_filter_option(cldec, << >>)
           c == FrameCollector_filter(clframe, d.out)
       IN  /\ cldec' = d.self
           /\ clframe' = c.self
           /\ clframes' = clframes \o c.out
    /\ clgap' = clgap + 1
    /\ UNCHANGED << clpc, clB, clenc, clkept, clbits >>
    /\ UNCHANGED << restVars, collectorVars, fskVars, samplerVars >>

\* the carrier is back after a gap that has reset the decoder: the encoder
\* of the second frame starts
LossResume ==
    /\ clpc = "gap"
    /\ clgap >= CARRIER_LOSS
    /\ clpc' = "second"
    /\ clenc' = hdlc_encode(bits_lsb(LossSecond))
    /\ UNCHANGED << clB, cldec, clframe, clgap, clkept, clbits, clframes >>
    /\ UNCHANGED << restVars, collectorVars, fskVars, samplerVars >>

\* the second frame is over
LossEnd ==
    /\ clpc = "second"
    /\ HdlcEncoderIter_next(clenc).item = << >>
    /\ clpc' = "done"
    /\ UNCHANGED << clB, clenc, cldec, clframe, clgap, clkept, clbits, clframes >>
    /\ UNCHANGED << restVars, collectorVars, fskVars, samplerVars >>

LossNext == LossFeed \/ LossOfCarrier \/ LossNone \/ LossResume \/ LossEnd

DspIdle == CollectorIdle /\ FskIdle /\ SamplerIdle /\ LossIdle

\* every subsystem but the signal-processing filters idle
RestIdle ==
    /\ CodecIdle /\ HdlcIdle /\ MacIdle /\ AddrIdle /\ NrziIdle /\ CrcIdle
    /\ SenderIdle /\ ReceiverIdle /\ DecodeIdle /\ ModemIdle

PhyIdle == SenderIdle /\ ReceiverIdle /\ DecodeIdle /\ ModemIdle /\ DspIdle

(***************************************************************************)
(* Specifications: one per subsystem, the other subsystems idle.           *)
(***************************************************************************)
\* the frame codec at work
InitCodec == CodecInit /\ HdlcIdle /\ MacIdle /\ AddrIdle /\ NrziIdle /\ CrcIdle /\ PhyIdle

SpecCodec == InitCodec /\ [][CodecNext]_vars

\* the HDLC framing at work
InitHdlc == CodecIdle /\ HdlcInit /\ MacIdle /\ AddrIdle /\ NrziIdle /\ CrcIdle /\ PhyIdle

SpecHdlc == InitHdlc /\ [][HdlcNext]_vars

\* the MAC receive filter at work
InitMac == CodecIdle /\ HdlcIdle /\ MacInit /\ AddrIdle /\ NrziIdle /\ CrcIdle /\ PhyIdle

SpecMac == InitMac /\ [][MacNext]_vars

\* the address conversions at work
InitAddr == CodecIdle /\ HdlcIdle /\ MacIdle /\ AddrInit /\ NrziIdle /\ CrcIdle /\ PhyIdle

SpecAddr == InitAddr /\ [][AddrNext]_vars

\* the NRZI pipe at work
InitNrzi == CodecIdle /\ HdlcIdle /\ MacIdle /\ AddrIdle /\ NrziInit /\ CrcIdle /\ PhyIdle

SpecNrzi == InitNrzi /\ [][NrziNext]_vars

\* the CRC trailer at work
InitCrc == CodecIdle /\ HdlcIdle /\ MacIdle /\ AddrIdle /\ NrziIdle /\ CrcInit /\ PhyIdle

SpecCrc == InitCrc /\ [][CrcNext]_vars

\* the Bell-202 sender
InitSender ==
    CodecIdle /\ HdlcIdle /\ MacIdle /\ AddrIdle /\ NrziIdle /\ CrcIdle /\ SenderInit
    /\ ReceiverIdle /\ DecodeIdle /\ ModemIdle /\ DspIdle

SpecSender == InitSender /\ [][SenderNext]_vars

\* the Bell-202 receiver
InitReceiver ==
    CodecIdle /\ HdlcIdle /\ MacIdle /\ AddrIdle /\ NrziIdle /\ CrcIdle /\ SenderIdle
    /\ ReceiverInit /\ DecodeIdle /\ ModemIdle /\ DspIdle

SpecReceiver == InitReceiver /\ [][ReceiverNext]_vars

\* the HDLC decoder fed any bits
InitDecode ==
    CodecIdle /\ HdlcIdle /\ MacIdle /\ AddrIdle /\ NrziIdle /\ CrcIdle /\ SenderIdle
    /\ ReceiverIdle /\ DecodeInit /\ ModemIdle /\ DspIdle

SpecDecode == InitDecode /\ [][DecodeNext]_vars

\* the HDLC decoder fed a carrier that comes and goes
InitCarrier ==
    CodecIdle /\ HdlcIdle /\ MacIdle /\ AddrIdle /\ NrziIdle /\ CrcIdle /\ SenderIdle
    /\ ReceiverIdle /\ CarrierInit /\ ModemIdle /\ DspIdle

SpecCarrier == InitCarrier /\ [][CarrierNext]_vars

\* the Bell-202 modem loop: encoder into decoder at one sample rate
InitModem ==
    CodecIdle /\ HdlcIdle /\ MacIdle /\ AddrIdle /\ NrziIdle /\ CrcIdle /\ SenderIdle
    /\ ReceiverIdle /\ DecodeIdle /\ ModemInit /\ DspIdle

SpecModem == InitModem /\ [][ModemNext]_vars

\* the frame collector fed any signals
InitCollector == RestIdle /\ CollectorInit /\ FskIdle /\ SamplerIdle /\ LossIdle

SpecCollector == InitCollector /\ [][CollectorNext]_vars

\* the FSK slicer fed any pairs
InitFsk == RestIdle /\ CollectorIdle /\ FskInit /\ SamplerIdle /\ LossIdle

SpecFsk == InitFsk /\ [][FskNext]_vars

\* the bit sampler fed a line of held bits
InitSampler == RestIdle /\ CollectorIdle /\ FskIdle /\ SamplerInit /\ LossIdle

SpecSampler == InitSampler /\ [][SamplerNext]_vars

\* the HDLC decoder fed any bits and any gaps, without end
InitRunning ==
    CodecIdle /\ HdlcIdle /\ MacIdle /\ AddrIdle /\ NrziIdle /\ CrcIdle /\ SenderIdle
    /\ ReceiverIdle /\ RunningInit /\ ModemIdle /\ DspIdle

SpecRunning == InitRunning /\ [][RunningNext]_vars

\* a frame interrupted by a loss of carrier
InitLoss == RestIdle /\ CollectorIdle /\ FskIdle /\ SamplerIdle /\ LossInit

SpecLoss == InitLoss /\ [][LossNext]_vars

\* the Bell-202 sender under its scheduling: a running timer expires, the
\* audio device keeps asking for samples, the executor polls a woken task,
\* and a task told Ready hands over its frame
SpecSenderLive ==
    /\ InitSender
    /\ [][SenderNext]_vars
    /\ WF_vars(TimerFire)
    /\ WF_vars(OutputCallback)
    /\ WF_vars(txwoken /\ PollReady)
    /\ WF_vars(StartSend)

(***************************************************************************)
(* Properties of the frame codec.                                          *)
(***************************************************************************)
\* C1: parsing the serialisation of a valid frame F with payload P returns
\* Ok((F, P)).
C1_RoundTrip ==
    (cpc \in {"parsed", "acked"} /\ corigin = "serialized") =>
        cresult = [status |-> "Ok", why |-> "", frame_info |-> cframe, payload |-> cpayload]

\* a frame with network id, relay, key-indexed security header, MIC and payload
\* has been serialised and parsed
C1_Witness ==
    /\ cpc = "parsed"
    /\ corigin = "serialized"
    /\ cframe.network_id # << >>
    /\ cframe.rly_addr = << ADDR_RAD_RELAY >>
    /\ cframe.sec_info # << >>
    /\ cframe.sec_info[1].kim = "KeyIndex"
    /\ cframe.dst_addr = ADDR_GAP
    /\ cpayload # << >>
    /\ cresult.status = "Ok"

\* the header of the buffer declares a version other than 00 and 01
BadVersion(frame) == frame[1] \div 64 \notin {VERSION_EXPERIMENTAL, VERSION_1}

\* C2: try_from_bytes returns Ok or Err for every buffer and never panics; it
\* returns Err for a buffer shorter than 5 octets and for an unknown version.
C2_ParseNeverPanics ==
    cpc \in {"parsed", "acked"} =>
        /\ cresult.status \in {"Ok", "Err"}
        /\ Len(cbytes) < 5 => cresult.status = "Err"
        /\ (Len(cbytes) >= 5 /\ BadVersion(cbytes)) => cresult.status = "Err"

\* C5: the ack_crc of the ACK generated from the parse result of a buffer B
\* that asks for an ACK is the X.25 checksum of B itself.
C5_AckCrcOverReceivedBytes ==
    (cpc = "acked" /\ cresult.frame_info.ack_requested) =>
        /\ cack # << >>
        /\ cack[1].ack_crc = X25(cbytes)

\* the address an ACK for frame f is sent from
AckSender(f) ==
    IF f.is_from_relay /\ f.rly_addr # << >> THEN f.rly_addr[1] ELSE f.dst_addr

\* C6: generate_ack_frame returns None when ack_requested is false; otherwise
\* an Ack frame whose src_addr is the relay address if is_from_relay is set and
\* a relay address is present and dst_addr otherwise, whose ack_crc is the
\* checksum of the frame's serialisation, and whose other fields are empty.
C6_AckFrame ==
    cpc = "acked" =>
        LET f == cresult.frame_info
        IN  IF ~f.ack_requested
            THEN cack = << >>
            ELSE cack = << [frame_type |-> "Ack",
                            ack_requested |-> FALSE,
                            is_from_relay |-> FALSE,
                            network_id |-> << >>,
                            dst_addr |-> HamAddr_EMPTY,
                            src_addr |-> AckSender(f),
                            rly_addr |-> << >>,
                            sec_info |-> << >>,
                            ack_crc |-> X25(bytes_with_payload(f, cresult.payload))] >>

\* an ACK has been generated for a frame that carries a relay address without
\* coming from the relay: its sender is dst_addr
C6_Witness ==
    /\ cpc = "acked"
    /\ cresult.frame_info.ack_requested
    /\ cresult.frame_info.rly_addr # << >>
    /\ ~cresult.frame_info.is_from_relay
    /\ cresult.frame_info.dst_addr = ADDR_X1X
    /\ cack # << >>
    /\ cack[1].src_addr = ADDR_X1X

(***************************************************************************)
(* Properties of the HDLC framing.                                         *)
(***************************************************************************)
\* C3, as stated: once the whole bit stream B.bits_lsb().hdlc_encode() has been
\* fed through a fresh HdlcDecode and a fresh FrameCollector, the frames
\* collected are exactly B, for every byte vector B.
C3_EveryVectorSurvives == hpc = "done" => hframes = << hB >>

\* C3, amended: for every non-empty byte vector B the first and only frame
\* collected from B.bits_lsb().hdlc_encode() is B, and nothing else is ever
\* collected while the stream is fed; for the empty vector no frame is
\* collected at all.
C3_HdlcRoundTrip ==
    /\ hframes \in { << >>, << hB >> }
    /\ hB = << >> => hframes = << >>
    /\ (hpc = "done" /\ hB # << >>) => hframes = << hB >>

\* a vector whose ones need stuffing and whose second octet is the marker
\* pattern has been carried whole
C3_Witness == hpc = "done" /\ hB = << 255, 126 >> /\ hframes = << hB >>

(***************************************************************************)
(* Properties of the MAC receive filter.                                   *)
(***************************************************************************)
\* the parse result of the inbound buffer at index i
Parsed(i) == try_from_bytes(inbound[i])

\* the indices into handed of the buffers handed to the sink for inbound
\* buffer i
HandedFor(i) == { k \in 1..Len(handed) : handed[k].idx = i }

\* listen has dealt with inbound buffer i to the end of the loop body
Settled(i) ==
    outcome[i] \in {"parse_error", "wrong_network", "not_for_us", "security_error",
                    "returned"}

\* inbound buffer i parses, passes the network check of listen, is addressed
\* to the own callsign and asks for an ACK
AckDue(i) ==
    /\ Parsed(i).status = "Ok"
    /\ network_check(Parsed(i).frame_info, mnetid)
    /\ Parsed(i).frame_info.dst_addr = MacCallsign
    /\ Parsed(i).frame_info.ack_requested

\* the octets of the ACK for inbound buffer i followed by the two octets of
\* their X.25 CRC
AckWithCrc(i) ==
    LET ack == generate_ack_frame(Parsed(i).frame_info, Parsed(i).payload)[1]
        octets == bytes_with_payload(ack, << >>)
    IN  octets \o << X25(octets) % 256, X25(octets) \div 256 >>

\* C4: listen hands a buffer to the sink for an inbound buffer only if that
\* buffer parses, passes the network check, is addressed to the own callsign
\* and has ack_requested set; it hands at most one, and it is the ACK frame's
\* bytes_with_payload(&[]) followed by its two CRC octets.  For every buffer
\* whose loop body ran to its end the converse holds too, and a buffer that
\* reached process_inbound (accepted or rejected) with an ACK due had its ACK
\* handed over and taken by the sink before.
C4_AckHandedIff ==
    mactive =>
        \A i \in 1..Len(inbound) :
            /\ Cardinality(HandedFor(i)) <= 1
            /\ \A k \in HandedFor(i) : AckDue(i) /\ handed[k].bytes = AckWithCrc(i)
            /\ Settled(i) => (AckDue(i) <=> HandedFor(i) # {})
            /\ (outcome[i] \in {"security_error", "returned"} /\ AckDue(i)) =>
                  \E k \in 1..Len(sink) : sink[k] = AckWithCrc(i)

\* the security context rejected a frame whose ACK the sink had already taken
C4_Witness ==
    /\ mactive
    /\ \E i \in 1..Len(inbound) :
        /\ outcome[i] = "security_error"
        /\ AckDue(i)
        /\ HandedFor(i) # {}
        /\ \E k \in 1..Len(sink) : sink[k] = AckWithCrc(i)

\* C7: listen drops a frame at the network check if and only if the frame
\* carries a network_id that differs from the configured NetworkId; a frame
\* without a network_id always passes.
C7_NetworkCheck ==
    mactive =>
        \A i \in 1..Len(inbound) :
            (Parsed(i).status = "Ok" /\ outcome[i] \notin {"pending", "cancelled"}) =>
                (outcome[i] = "wrong_network" <=>
                    /\ Parsed(i).frame_info.network_id # << >>
                    /\ Parsed(i).frame_info.network_id[1] # mnetid)

\* inbound buffer i parsed, passed the network check, is addressed to the own
\* callsign or to a multicast group, and the security context accepted it
Accepted(i) ==
    /\ Parsed(i).status = "Ok"
    /\ network_check(Parsed(i).frame_info, mnetid)
    /\ \/ Parsed(i).frame_info.dst_addr = MacCallsign
       \/ HamAddr_is_multicast(Parsed(i).frame_info.dst_addr)
    /\ Parsed(i).frame_info.sec_info = << >>

\* C8: listen returns Ok(Some((F, P))) only for a buffer that parsed to F,
\* passed the network check, is addressed to this node or to a multicast
\* group and was accepted by the security context; a buffer that fails to
\* parse, is of another network, is not addressed to this node or is rejected
\* by the security context is never returned, and the listen call that took
\* it goes on to the next buffer: it does not end on that buffer.
C8_OnlyAcceptedReturned ==
    mactive =>
        /\ \A k \in 1..Len(returned) :
            /\ Accepted(returned[k].idx)
            /\ returned[k].frame_info = Parsed(returned[k].idx).frame_info
            /\ returned[k].payload = Parsed(returned[k].idx).payload
        /\ \A i \in 1..Len(inbound) :
            (outcome[i] \notin {"pending", "acking", "cancelled", "sink_error"}
             /\ ~Accepted(i)) =>
                /\ outcome[i] \in {"parse_error", "wrong_network", "not_for_us",
                                   "security_error"}
                /\ \A k \in 1..Len(returned) : returned[k].idx # i
        /\ \A l \in Listeners : pc[l] # "panicked"

\* C9: the frames returned by listen are inbound buffers in their arrival
\* order, none of them twice, and listen returns Ok(None) only once the
\* inbound stream has ended and every buffer has been taken.
C9_ReceiveOrder ==
    mactive =>
        /\ \A j, k \in 1..Len(returned) :
            j < k => returned[j].idx < returned[k].idx
        /\ \A k \in 1..Len(returned) :
            /\ returned[k].idx \in 1..Len(inbound)
            /\ returned[k].frame_info = Parsed(returned[k].idx).frame_info
        /\ \A l \in Listeners :
            result[l] = "None" => (sclosed /\ spos > Len(inbound))

\* two frames have been returned, and a later call has returned Ok(None)
C9_Witness ==
    /\ mactive
    /\ Len(returned) = 2
    /\ \E l \in Listeners : result[l] = "None"

\* s is a subsequence of t
RECURSIVE IsSubseq(_, _)
IsSubseq(s, t) ==
    IF s = << >> THEN TRUE
    ELSE IF t = << >> THEN FALSE
    ELSE IF Head(s) = Head(t) THEN IsSubseq(Tail(s), Tail(t))
    ELSE IsSubseq(s, Tail(t))

\* C10: with several listen calls in progress, every buffer the stream has
\* yielded was taken by exactly one call and no other buffer by any; at most
\* one call is inside send at a time, and the sink holds nothing but complete
\* ACK buffers, in the order in which they were handed over, also after calls
\* have been cancelled at their suspension points.
C10_ConcurrentListens ==
    mactive =>
        /\ \A i \in 1..Len(inbound) :
            Cardinality({ k \in 1..Len(taken) : taken[k][2] = i }) =
                (IF i < spos THEN 1 ELSE 0)
        /\ Cardinality({ l \in Listeners : pc[l] \in {"send_ready", "send_flush"} }) <= 1
        /\ \A k \in 1..Len(sink) :
            \E i \in 1..Len(inbound) : AckDue(i) /\ sink[k] = AckWithCrc(i)
        /\ IsSubseq(sink, [k \in 1..Len(handed) |-> handed[k].bytes])

\* two ACKs are complete on the sink, sent by different listen calls, after a
\* call has been cancelled inside send
C10_Witness ==
    /\ mactive
    /\ Len(sink) = 2
    /\ Len(handed) = 2
    /\ taken[1][1] # taken[2][1]
    /\ \E i \in 1..Len(inbound) : outcome[i] = "cancelled"

(***************************************************************************)
(* Properties of the callsign strings.                                     *)
(***************************************************************************)
\* C11: for every string s that try_from_callsign accepts, the Display
\* rendering of the parsed address is produced, parses again, and gives the
\* same address: parse(display(parse(s))) = parse(s).
C11_CallsignRoundTrip ==
    (asrc = "callsign" /\ aflow = "text" /\ ah.status = "Ok") =>
        /\ atext.status \in {"None", "Ok"}
        /\ are.status # "None" => are = ah

\* the characters of the ARNCE alphabet, in either case
ArnceAlphabet == {0, 45, 47, 94} \cup (48..57) \cup (65..90) \cup (97..122)

\* str::to_ascii_uppercase
to_ascii_uppercase(s) ==
    [i \in 1..Len(s) |-> IF s[i] \in 97..122 THEN s[i] - 32 ELSE s[i]]

\* str::to_ascii_lowercase
to_ascii_lowercase(s) ==
    [i \in 1..Len(s) |-> IF s[i] \in 65..90 THEN s[i] + 32 ELSE s[i]]

\* C12: try_from_callsign returns EMPTY for "" and "~", BROADCAST for "~ffff"
\* and "~FFFF", Err for every other string that starts with '~', Err for
\* every string of more than 12 characters or with a character outside the
\* ARNCE alphabet, and otherwise Ok with the address that the upper-case and
\* the lower-case spelling of the string also give.
C12_CallsignParse ==
    (asrc = "callsign" /\ ah.status # "None") =>
        IF ain = << >> \/ ain = << 126 >>
        THEN ah = [status |-> "Ok", addr |-> HamAddr_EMPTY]
        ELSE IF ain = STR_BROADCAST_LOWER \/ ain = STR_BROADCAST_UPPER
        THEN ah = [status |-> "Ok", addr |-> HamAddr_BROADCAST]
        ELSE IF ain[1] = 126
        THEN ah.status = "Err"
        ELSE IF Len(ain) > 12 \/ \E i \in 1..Len(ain) : ain[i] \notin ArnceAlphabet
        THEN ah.status = "Err"
        ELSE /\ ah.status = "Ok"
             /\ ah = HamAddr_try_from_callsign(to_ascii_uppercase(ain))
             /\ ah = HamAddr_try_from_callsign(to_ascii_lowercase(ain))

\* a mixed-case callsign has been parsed
C12_Witness ==
    /\ asrc = "callsign"
    /\ ain = CALL_MIXED_CASE
    /\ ah.status = "Ok"
    /\ ah.addr = << 70, 113, 108, 160, 233, 192, 0, 0 >>

C15_MulticastMapping ==
    (asrc = "eui48" /\ ah.status # "None") =>
        /\ SubSeq(ain, 1, 3) = << 1, 0, 94 >> =>
              /\ ah = [status |-> "Ok",
                       addr |-> << 251, ain[6], ain[5], ain[4], 0, 0, 0, 0 >>]
              /\ aeui.status # "None" => aeui = [status |-> "Ok", eui |-> ain]
        /\ SubSeq(ain, 1, 2) = << 204, 204 >> =>
              /\ ah = [status |-> "Ok",
                       addr |-> << 250, ain[6], ain[5], ain[4], ain[3], 0, 0, 0 >>]
              /\ aeui.status # "None" => aeui = [status |-> "Ok", eui |-> ain]

\* an IPv6 multicast EUI-48 with four different octets went there and back
C15_Witness ==
    /\ asrc = "eui48"
    /\ ain = << 204, 204, 1, 94, 251, 255 >>
    /\ ah.status = "Ok"
    /\ aeui = [status |-> "Ok", eui |-> ain]

\* C16: "KJ6QOH-23" converts to the EUI-48 22:46:71:6c:a0:f2 and to the EUI-64
\* 22:46:71:ff:fe:6c:a0:f2, each of which converts back to "KJ6QOH-23", and
\* Eui48::try_from fails for "KJ6QOH-2X" and for "KJ6QOH-99".
C16_NineCharacterCallsign ==
    /\ (asrc = "callsign" /\ ain = CALL_KJ6QOH_23 /\ aflow = "eui48") =>
          /\ aeui.status # "None" =>
                /\ aeui.status = "Ok"
                /\ Eui48_Display(aeui.eui) =
                      << 50, 50, 58, 52, 54, 58, 55, 49, 58, 54, 99, 58, 97, 48, 58,
                         102, 50 >>
          /\ aback.status # "None" => aback = ah
          /\ atext.status # "None" => atext.text = CALL_KJ6QOH_23
    /\ (asrc = "callsign" /\ ain = CALL_KJ6QOH_23 /\ aflow = "eui64") =>
          /\ aeui.status # "None" =>
                /\ aeui.status = "Ok"
                /\ Eui64_Display(aeui.eui) =
                      << 50, 50, 58, 52, 54, 58, 55, 49, 58, 102, 102, 58, 102, 101,
                         58, 54, 99, 58, 97, 48, 58, 102, 50 >>
          /\ aback.status # "None" => aback = ah
          /\ atext.status # "None" => atext.text = CALL_KJ6QOH_23
    /\ (/\ asrc = "callsign"
        /\ ain \in {CALL_KJ6QOH_2X, CALL_KJ6QOH_99}
        /\ aflow = "eui48"
        /\ aeui.status # "None") => aeui.status = "Err"

(***************************************************************************)
(* Properties of the shape of an address.                                  *)
(***************************************************************************)
\* the type the classification rules give, read off the octets
TypeByRule(a) ==
    LET c(i) == a[2 * i + 1] * 256 + a[2 * i + 2]
        callsign_range(x) == 1600 <= x /\ x < 64000
    IN  IF a = << 0, 0, 0, 0, 0, 0, 0, 0 >> THEN "Empty"
        ELSE IF c(0) < 1600 /\ c(1) = 0 /\ c(2) = 0 /\ c(3) = 0 THEN "Short"
        ELSE IF c(0) < 1600 THEN "Reserved"
        ELSE IF callsign_range(c(0)) /\ \A i \in 1..3 : c(i) = 0 \/ callsign_range(c(i))
        THEN "Callsign"
        ELSE IF a = << 255, 255, 0, 0, 0, 0, 0, 0 >> THEN "Broadcast"
        ELSE IF a[1] = 250 THEN "Ipv6Multicast"
        ELSE IF a[1] = 251 THEN "Ipv4Multicast"
        ELSE "Reserved"

\* C17: get_type classifies an address by the first rule that matches: all
\* zero is Empty; chunk 0 below 0x0640 is Short when chunks 1-3 are zero and
\* Reserved otherwise; chunk 0 in 0x0640..0xF9FF with every non-zero higher
\* chunk in that range is Callsign; FF FF 00 .. 00 is Broadcast; first octet
\* 0xFA is Ipv6Multicast; first octet 0xFB is Ipv4Multicast; all else Reserved.
C17_GetType ==
    (aflow = "shape" /\ atype # "None") => atype = TypeByRule(ah.addr)

\* an address in the callsign range with a multicast-range higher chunk has
\* been classified
C17_Witness ==
    /\ aflow = "shape"
    /\ HamAddr_chunk(ah.addr, 0) = 18033
    /\ HamAddr_chunk(ah.addr, 2) = 64000
    /\ atype = "Reserved"

\* the index 0..3 of the last non-zero chunk, 0 for the all-zero address
LastChunk(a) ==
    IF \A i \in 1..8 : a[i] = 0 THEN 0
    ELSE CHOOSE i \in 0..3 :
           /\ a[2 * i + 1] # 0 \/ a[2 * i + 2] # 0
           /\ \A j \in (2 * i + 3)..8 : a[j] = 0

\* C18: len() is one of 2, 4, 6, 8 and equals 2 * (index of the last non-zero
\* chunk + 1), 2 for the all-zero address; every octet from index len() on is
\* zero; try_from_slice(as_trimmed_slice()) gives the address back.
C18_TrimmedLength ==
    (aflow = "shape" /\ atrim # << >>) =>
        LET len == Len(atrim[1])
        IN  /\ len \in {2, 4, 6, 8}
            /\ len = 2 * (LastChunk(ah.addr) + 1)
            /\ atrim[1] = SubSeq(ah.addr, 1, len)
            /\ \A i \in (len + 1)..8 : ah.addr[i] = 0
            /\ aagain.status # "None" => aagain = [status |-> "Ok", addr |-> ah.addr]

\* an address with a zero chunk below its last non-zero chunk has been
\* trimmed and rebuilt
C18_Witness ==
    /\ aflow = "shape"
    /\ HamAddr_chunk(ah.addr, 1) = 0
    /\ HamAddr_chunk(ah.addr, 2) # 0
    /\ HamAddr_chunk(ah.addr, 3) = 0
    /\ atrim # << >>
    /\ Len(atrim[1]) = 6
    /\ aagain = [status |-> "Ok", addr |-> ah.addr]

(***************************************************************************)
(* Properties of the NRZI pipe and of the CRC trailer.                     *)
(***************************************************************************)
\* C19: a fresh NrziEncode chained into a fresh NrziDecode puts out every
\* input bit unchanged at every index, index 0 included.
C19_NrziPipe ==
    nrun => /\ Len(nout) = Len(nin)
            /\ \A i \in 1..Len(nin) : nout[i] = nin[i]

\* a sequence that starts with a transition and holds both bits went through
C19_Witness ==
    /\ nrun
    /\ Len(nin) >= 4
    /\ nin[1] = FALSE
    /\ nin[2] = TRUE
    /\ nin[3] = TRUE
    /\ nin[4] = FALSE
    /\ nout = nin

\* C20: B.append_crc(&X25) yields the bytes of B unchanged, then exactly two
\* octets, the low byte and then the high byte of the CRC-16/X.25 of B, and
\* then ends; the X.25 checksum over all of the output is 0x0F47.
C20_AppendCrc ==
    krun =>
        LET crc == X25(kB)
            whole == kB \o << crc % 256, crc \div 256 >>
        IN  /\ Len(kout) <= Len(whole)
            /\ kout = SubSeq(whole, 1, Len(kout))
            /\ knone > 0 => /\ kout = whole
                            /\ kiter.tag = "Finished"
                            /\ X25(kout) = 3911

\* three bytes and their trailer have come out, and next() returned None
C20_Witness ==
    /\ krun
    /\ kB = << 255, 0, 126 >>
    /\ Len(kout) = 5
    /\ knone > 0

(***************************************************************************)
(* Properties of the ACK serialisation.                                    *)
(***************************************************************************)
\* C21: a frame of type Ack has no FCF LSB; its serialisation with an empty
\* payload is FCF_MSB, the trimmed src_addr and the big-endian ack_crc and
\* nothing else; bytes_with_payload panics when the payload is non-empty.
C21_AckSerialisation ==
    cframe.frame_type = "Ack" =>
        /\ fcf_lsb(cframe) = << >>
        /\ (cpc # "frame" /\ cpayload # << >>) => (cpc = "panicked" /\ cbytes = << >>)
        /\ (cpc # "frame" /\ cpayload = << >>) => cpc # "panicked"
        /\ (corigin = "serialized" /\ cpc = "bytes") =>
              cbytes = << fcf_msb(cframe) >>
                       \o SubSeq(cframe.src_addr, 1, HamAddr_len(cframe.src_addr))
                       \o << cframe.ack_crc \div 256, cframe.ack_crc % 256 >>

\* the ACK of HUXLEY with ack_crc 0xBEEF has been serialised to seven octets,
\* as in the test frame_info_ack
C21_Witness ==
    /\ cframe.frame_type = "Ack"
    /\ cframe.src_addr = ADDR_HUXLEY
    /\ cframe.ack_crc = 48879
    /\ cpayload = << >>
    /\ corigin = "serialized"
    /\ cpc = "bytes"
    /\ cbytes = << 33, 53, 96, 75, 225, 190, 239 >>

(***************************************************************************)
(* Properties of the Bell-202 sender.                                      *)
(***************************************************************************)
\* C22: a frame enters the frame queue only in a start_send that finds
\* is_channel_clear true; a start_send that finds it false returns an error
\* and leaves the queue alone; poll_ready returns Ready only when it finds
\* the flag true.
C22_ChannelClearGate ==
    [][ /\ Len(sendframe'.queue) > Len(sendframe.queue) =>
              (txpc = "ready" /\ sender.is_channel_clear)
        /\ (txpc = "ready" /\ txpc' # "ready" /\ ~sender.is_channel_clear) =>
              (txpc' = "failed" /\ sendframe' = sendframe)
        /\ (txpc # "ready" /\ txpc' = "ready") => sender.is_channel_clear
      ]_vars

\* start_send was refused because the channel turned busy after poll_ready
\* had returned Ready, and the frame queue is empty
C22_Witness ==
    /\ txpc = "failed"
    /\ ~sender.is_channel_clear
    /\ txn = 1
    /\ sendframe.queue = << >>
    /\ encoder.frame = 0

\* C23: a task pending in poll_ready while is_channel_clear is true gets its
\* frame committed unless the flag turns false again.
C23_PendingSenderProceeds ==
    (txpc = "pending" /\ sender.is_channel_clear)
        ~> (txpc = "committed" \/ ~sender.is_channel_clear)

\* the task is pending with the channel clear, the wake-up of
\* set_channel_clear went to the no-op waker, and only the running back-off
\* timer is left to wake it
C23_Witness ==
    /\ txpc = "pending"
    /\ sender.is_channel_clear
    /\ sender.channel_clear_waker = "noop"
    /\ sender.cca_backoff_timer = << "Running" >>
    /\ ~txwoken
    /\ ~sendframe.is_parked

(***************************************************************************)
(* Properties of the Bell-202 receiver.                                    *)
(***************************************************************************)
\* the frame channel has room: it holds fewer frames than its buffer plus the
\* slot of its one sender
HasRoom(q) == Len(q) < RECVFRAME_BUFFER + 1

\* the queue after a callback that forwards each frame iff its checksum is
\* the residue and the channel has room
RECURSIVE ForwardedIff(_, _)
ForwardedIff(q, frames) ==
    IF frames = << >> THEN q
    ELSE ForwardedIff(IF X25(Head(frames)) = X25_RESIDUE /\ HasRoom(q)
                      THEN Append(q, Head(frames)) ELSE q,
                      Tail(frames))

\* the frames are in the order the decoder yielded them (the first octet of
\* the k-th frame is k)
InDecodeOrder(q) == \A i \in 1..Len(q) : \A j \in 1..Len(q) : i < j => q[i][1] < q[j][1]

\* C24: the input callback forwards a decoded frame iff its X.25 checksum is
\* 0x0F47 and the frame channel has room, and drops it otherwise; the callback
\* can always run; the frames the consumer gets are in decode order.
C24_ForwardOrDrop ==
    /\ [][ rxn' # rxn =>
              /\ recvframe'.queue = ForwardedIff(recvframe.queue,
                                                 [i \in 1..Len(rxlog') |-> rxlog'[i].frame])
              /\ Len(rxlog') = rxn' - rxn
              /\ \A i \in 1..Len(rxlog') :
                    rxlog'[i].event = "Bad CRC" <=> X25(rxlog'[i].frame) # X25_RESIDUE
       ]_vars
    /\ [](rxpc = "on" /\ rxn < MaxDecoded => ENABLED InputCallback)
    /\ [](InDecodeOrder(rxlast \o recvframe.queue))

\* frame 12 was dropped on the full channel; the consumer then took frame 1
\* and frame 13 went through, so the channel is full again without frame 12
C24_Witness ==
    /\ Len(recvframe.queue) = RECVFRAME_BUFFER + 1
    /\ rxlast = << RxFrame(1, TRUE) >>
    /\ recvframe.queue[RECVFRAME_BUFFER] = RxFrame(RECVFRAME_BUFFER + 1, TRUE)
    /\ recvframe.queue[RECVFRAME_BUFFER + 1] = RxFrame(RECVFRAME_BUFFER + 3, TRUE)
    /\ rxlog = << [frame |-> RxFrame(RECVFRAME_BUFFER + 3, TRUE), event |-> "Forwarded"] >>

\* C25: every buffer on the frame channel is a decoded frame without its two
\* trailing CRC octets.
C25_CrcStripped ==
    \A i \in 1..Len(recvframe.queue) :
        \E k \in 1..MaxDecoded : recvframe.queue[i] = << k >>

(***************************************************************************)
(* Properties of the bit order and of the HDLC encoder.                    *)
(***************************************************************************)
\* the bits of the octets B, each octet from bit 0 up to bit 7
LsbFirst(B) == [i \in 1..(8 * Len(B)) |-> Bit(B[((i - 1) \div 8) + 1], (i - 1) % 8)]

\* C26: bits_lsb yields the bits of each octet from bit 0 up to bit 7, octet
\* after octet; an octet the decoder emits is the one whose bit i is the
\* (i+1)-th of the eight bits it shifted in.
C26_LsbFirst ==
    /\ Len(hlsb) <= 8 * Len(hB)
    /\ hlsb = SubSeq(LsbFirst(hB), 1, Len(hlsb))
    /\ hpc = "done" => hlsb = LsbFirst(hB)
    /\ (hout # << >> /\ hout[1].kind = "Octet") =>
          /\ Len(hx) = 8
          /\ \A i \in 0..7 : Bit(hout[1].value, i) = hx[i + 1]

\* the octet 0xF0 of tests::lsb_bit_iterator has gone through: four low bits
\* clear first, then four high bits set
C26_Witness ==
    /\ hpc = "done"
    /\ hB = << 240 >>
    /\ hlsb = << FALSE, FALSE, FALSE, FALSE, TRUE, TRUE, TRUE, TRUE >>
    /\ hframes = << << 240 >> >>

\* n repetitions of the marker 01111110
RECURSIVE Markers(_)
Markers(n) ==
    IF n = 0 THEN << >>
    ELSE << FALSE, TRUE, TRUE, TRUE, TRUE, TRUE, TRUE, FALSE >> \o Markers(n - 1)

\* bits with a 0 inserted after every run of five 1s; ones is the length of
\* the run of 1s so far
RECURSIVE Stuffed(_, _)
Stuffed(bits, ones) ==
    IF bits = << >> THEN (IF ones = 5 THEN << FALSE >> ELSE << >>)
    ELSE IF ones = 5 THEN << FALSE >> \o Stuffed(bits, 0)
    ELSE << Head(bits) >> \o Stuffed(Tail(bits), IF Head(bits) THEN ones + 1 ELSE 0)

\* no six consecutive 1s in bits
NoSixOnes(bits) ==
    \A i \in 1..(Len(bits) - 5) : \E j \in 0..5 : ~bits[i + j]

\* the whole output for the input octets B
Encoded(B) == Markers(15) \o Stuffed(LsbFirst(B), 0) \o Markers(2)

\* C30: the encoder yields 15 markers, the input bits with a 0 after every
\* run of five 1s, then 2 markers, and None from then on.
C30_EncoderOutput ==
    /\ Len(hbits) <= Len(Encoded(hB))
    /\ hbits = SubSeq(Encoded(hB), 1, Len(hbits))
    /\ hpc = "done" => hbits = Encoded(hB)
    /\ NoSixOnes(Stuffed(LsbFirst(hB), 0))
    /\ henc.state = "End" <=> hbits = Encoded(hB)
    /\ henc.state = "End" => HdlcEncoderIter_next(henc) = [item |-> << >>, self |-> henc]

\* the octets 0x1F and 0xFF have been sent: 120 + 18 + 16 bits, with a 0
\* stuffed after the five 1s of the first octet and after the first five 1s
\* of the second
C30_Witness ==
    /\ hpc = "done"
    /\ hB = << 31, 255 >>
    /\ Len(hbits) = 120 + 18 + 16
    /\ SubSeq(hbits, 121, 138) =
         << TRUE, TRUE, TRUE, TRUE, TRUE, FALSE, FALSE, FALSE, FALSE,
            TRUE, TRUE, TRUE, TRUE, TRUE, FALSE, TRUE, TRUE, TRUE >>

(***************************************************************************)
(* Properties of the HDLC decoder.                                         *)
(***************************************************************************)
\* the last call of filter completed a marker: six 1s had been seen and the
\* bit was 0
MarkerMatched == dpc = "bits" /\ din = << FALSE >> /\ dprev.reset_next

\* C28, as stated: whenever the decoder matches the marker, hunting or
\* running, it emits FrameMarker and is running afterwards if its bit counter
\* was 5 or 6, and emits DecodeError otherwise.
C28_MarkerAlignedAlways ==
    MarkerMatched =>
        IF dprev.bit \in {5, 6}
        THEN dout = << FrameMarker >> /\ dec.is_running
        ELSE dout = << DecodeError >>

\* C28, amended: a marker matched while running gives FrameMarker and keeps
\* the decoder running if the bit counter was 5 or 6, and gives DecodeError
\* and ends running mode otherwise; a marker matched while hunting gives
\* FrameMarker and starts running mode whatever the bit counter was.
C28_MarkerAligned ==
    MarkerMatched =>
        IF ~dprev.is_running \/ dprev.bit \in {5, 6}
        THEN dout = << FrameMarker >> /\ dec.is_running
        ELSE dout = << DecodeError >> /\ ~dec.is_running

\* a marker was matched while hunting with the bit counter at 7, as after
\* the thirteen random bits of tests::hdlc_decode, and FrameMarker came out
C28_Witness ==
    /\ MarkerMatched
    /\ ~dprev.is_running
    /\ dprev.bit = 7
    /\ dout = << FrameMarker >>
    /\ dec.is_running

\* the fields reset() clears, empty_bits aside
Cleared(d) ==
    /\ ~d.is_running
    /\ d.accum = 0
    /\ d.bit = 0
    /\ d.ones = 0
    /\ ~d.skip_next_zero
    /\ ~d.reset_next

\* C29, as stated: after 20 None inputs in a row the decoder is reset.
C29_ResetAfter20 == (dpc = "carrier" /\ dnones >= 20) => Cleared(dec)

\* C29, amended: after 21 None inputs in a row the decoder is reset, and up
\* to the 20th it keeps its state.
C29_ResetAfter21 ==
    /\ (dpc = "carrier" /\ dnones >= 21) => Cleared(dec)
    /\ (dpc = "carrier" /\ dnones \in 1..20) =>
          dec = [dprev EXCEPT !.empty_bits = dnones]

\* a running decoder in the middle of an octet has been reset by the 21st
\* None in a row
C29_Witness ==
    /\ dpc = "carrier"
    /\ dnones = 21
    /\ dprev.is_running
    /\ dprev.bit = 3
    /\ dprev.empty_bits = 20
    /\ dec = HdlcDecode_default

(***************************************************************************)
(* Properties of the Bell-202 modem loop.                                  *)
(***************************************************************************)
\* C27: for any input bytes B and any sample rate in 6000..14900, the
\* samples of bell_202_encode(B, fs, 0.75) run through bell_202_decoder(fs)
\* yield B as the first output frame: no run with octets to send ends
\* without the decoder having yielded B.
C27_EncodeDecode ==
    (bB # << >> /\ sample_rate \in 6000..14900 /\ bpc \in {"done", "silent", "panicked"})
        => (bpc = "done" /\ bfirst = << bB >>)

(***************************************************************************)
(* Properties of the frame collector.                                      *)
(***************************************************************************)
\* C31: FrameCollector emits a frame only on a FrameMarker received while
\* its buffer is non-empty; the emitted frame is exactly the octets received
\* since the last emission or DecodeError, in order; the buffer is empty
\* afterwards; a DecodeError empties the buffer without emitting; an empty
\* frame is never emitted.
C31_CollectorEmits ==
    [][ /\ fout' # << >> =>
            /\ fsample' = << FrameMarker >>
            /\ fframe # << >>
            /\ fout'[1] = fsince
            /\ fout'[1] # << >>
            /\ fframe' = << >>
        /\ fsample' = << DecodeError >> => (fframe' = << >> /\ fout' = << >>)
      ]_vars

\* the sixth signal was a marker and the collector has emitted the two
\* octets it held
C31_Witness ==
    /\ fn = 6
    /\ fout = << << 255, 0 >> >>
    /\ fframe = << >>

(***************************************************************************)
(* Properties of the FSK slicer.                                           *)
(***************************************************************************)
\* C32: FskDemod::filter returns None if and only if the frequency
\* component of its input is non-finite or the magnitude component of its
\* input is non-positive; otherwise it returns Some(true) for a frequency on
\* the mark side of the mark/space midpoint and Some(false) for one on the
\* space side.  The mark is the one of FskDemod::new(zero, one).
C32_SlicerOutput ==
    fskn > 0 =>
        LET f == fsksample[1]
            mag == fsksample[2]
            one_above == fsk.scale.den > 0
        IN  /\ fskout = << >> <=> (~is_finite(f) \/ le_zero(mag))
            /\ (fskout # << >> /\ f.v # fsk.offset) =>
                   fskout[1] = IF one_above THEN f.v > fsk.offset ELSE f.v < fsk.offset

(***************************************************************************)
(* Properties of the bit sampler.                                          *)
(***************************************************************************)
\* C33: with sample_rate = r * bit_rate for an integer r >= 3 and an input
\* of Some samples in which every bit is held for exactly r consecutive
\* samples, BitSampler emits exactly one Some per input bit, carrying that
\* bit's value, in order: the outputs are the bits of the line, short of
\* the last bit at most while it is still held; on constant input the
\* outputs are r samples apart; and a bit that begins with a transition is
\* sampled before it ends.
C33_OnePerBit ==
    /\ [](bspc = "on" =>
            /\ Len(bsout) <= Len(bsin)
            /\ bsout = SubSeq(bsin, 1, Len(bsout))
            /\ Len(bsout) >= Len(bsin) - 1
            /\ bsheld = SamplesPerBit => bsout = bsin)
    /\ [][ (bsout' # bsout /\ bsconst) => bslast + 1 = SamplesPerBit ]_vars

\* Bell 202 at 7200 Hz: the bits 0 1 1 0 have gone through, six samples
\* each, and have come out
C33_Witness ==
    /\ bs.sample_rate = 7200
    /\ bs.bit_rate = 1200
    /\ bsin = << FALSE, TRUE, TRUE, FALSE >>
    /\ bsheld = 6
    /\ bsout = bsin

(***************************************************************************)
(* More properties of the MAC receive filter.                              *)
(***************************************************************************)
\* the buffer at position i of the inbound stream parses to a frame for the
\* broadcast address
ToBroadcast(i) ==
    LET parsed == try_from_bytes(inbound[i])
    IN  parsed.status = "Ok" /\ parsed.frame_info.dst_addr = HamAddr_BROADCAST

\* C34: a frame whose dst_addr is HamAddr::BROADCAST is never returned by
\* Mac::listen (the own callsign not being the broadcast address) and never
\* triggers an ACK: once taken it is dropped by the network check or as not
\* for us.
C34_BroadcastDropped ==
    (mactive /\ MacCallsign # HamAddr_BROADCAST) =>
        \A i \in 1..Len(inbound) :
            ToBroadcast(i) =>
                /\ outcome[i] \in {"pending", "wrong_network", "not_for_us"}
                /\ \A k \in 1..Len(returned) : returned[k].idx # i
                /\ \A k \in 1..Len(handed) : handed[k].idx # i

\* a broadcast frame on the network of the Mac has been taken and dropped
C34_Witness ==
    /\ mactive
    /\ mnetid = 0
    /\ \E i \in 1..Len(inbound) : ToBroadcast(i) /\ outcome[i] = "not_for_us"

\* C35: if handing the ACK to the sink fails, Mac::listen returns that error
\* immediately; the frame that triggered the ACK has been consumed from the
\* stream and is not returned by this or any later listen call, and the
\* security context is not invoked for it: the step that marks a buffer as
\* failed at the sink ends the call that took it with Err, the buffer lies
\* behind the stream position and is in no call's hands, it is never among
\* the returned frames, and its outcome never becomes that of a buffer the
\* security context has seen.
C35_SinkErrorReturned ==
    /\ [](mactive =>
            \A i \in 1..Len(inbound) :
                outcome[i] = "sink_error" =>
                    /\ i < spos
                    /\ \A l \in Listeners : cur[l] # i
                    /\ \A k \in 1..Len(returned) : returned[k].idx # i)
    /\ [][ \A i \in 1..Len(inbound) :
              /\ outcome[i] = "sink_error" => outcome'[i] = "sink_error"
              /\ (outcome[i] # "sink_error" /\ outcome'[i] = "sink_error") =>
                    \E l \in Listeners :
                        /\ cur[l] = i
                        /\ pc[l] \in {"send_ready", "send_flush"}
                        /\ pc'[l] = "idle"
                        /\ result'[l] = "Err"
                        /\ streamLock' = 0
                        /\ sinkLock' = 0
       ]_vars

\* the first buffer's ACK failed at the sink, and a later call has returned
\* the second buffer
C35_Witness ==
    /\ mactive
    /\ Len(inbound) = 2
    /\ outcome[1] = "sink_error"
    /\ outcome[2] = "returned"
    /\ Len(returned) = 1

\* C36: with any number of concurrent listen calls on one Mac, ACKs reach
\* the sink in the same order in which their triggering frames arrived on
\* the inbound stream, because the call that took a frame keeps the stream
\* lock until it has sent that frame's ACK: the ACKs handed to send are those
\* of buffers in ascending stream position, the sink holds them in that
\* order, and a call that is building or sending an ACK holds the stream
\* lock.
C36_AckOrder ==
    mactive =>
        /\ \A j, k \in 1..Len(handed) : j < k => handed[j].idx < handed[k].idx
        /\ IsSubseq(sink, [k \in 1..Len(handed) |-> AckWithCrc(handed[k].idx)])
        /\ \A l \in Listeners :
            pc[l] \in {"lock_sink", "send_ready", "send_flush"} =>
                (streamLock = l /\ cur[l] = spos - 1)

\* two calls have taken one frame each, both frames asked for an ACK, and
\* both ACKs are on the sink
C36_Witness ==
    /\ mactive
    /\ Len(sink) = 2
    /\ Len(handed) = 2
    /\ taken[1][1] # taken[2][1]
    /\ \A i \in 1..Len(inbound) : outcome[i] \in {"returned", "acking"}

\* a listen call in progress moves on: it gets a lock, takes a buffer or the
\* end of the stream, or gets on with its send
ListenStep ==
    \E l \in Listeners :
        \/ LockStream(l)
        \/ StreamEnd(l)
        \/ TakePanic(l)
        \/ TakeParseError(l)
        \/ TakeWrongNetwork(l)
        \/ TakeAckDue(l)
        \/ TakeNotForUs(l)
        \/ TakeNoAck(l)
        \/ LockSink(l)
        \/ SendStart(l)
        \/ SendDone(l)

\* C37: concurrent listen calls on one Mac never deadlock: the sink lock is
\* only ever requested by a call that already holds the stream lock and it
\* is released before the stream lock, so whenever the stream can deliver a
\* buffer (or its end) and the sink can accept one, some listen call in
\* progress can make a step.
C37_NoDeadlock ==
    mactive =>
        /\ \A l \in Listeners : pc[l] = "lock_sink" => streamLock = l
        /\ sinkLock # 0 => streamLock = sinkLock
        /\ ((\E l \in Listeners : pc[l] \notin {"idle", "panicked"})
            /\ (spos <= Len(inbound) \/ sclosed)) => ENABLED ListenStep

\* one call holds both locks inside send while the other waits for the
\* stream lock and a buffer is waiting on the stream
C37_Witness ==
    /\ mactive
    /\ spos <= Len(inbound)
    /\ \E l, o \in Listeners :
        /\ l # o
        /\ pc[l] = "send_flush"
        /\ sinkLock = l
        /\ streamLock = l
        /\ pc[o] = "lock_stream"

(***************************************************************************)
(* Invariants of the HDLC decoder.                                         *)
(***************************************************************************)
\* C38: in every reachable state of HdlcDecode, for any input sequence of
\* Some/None bits: an Octet is emitted only while running (after a
\* FrameMarker with no DecodeError or carrier-loss reset since), DecodeError
\* is emitted only while running and leaves the decoder not running until
\* the next FrameMarker, and the counters stay bounded (bit < 8, ones < 5,
\* empty_bits <= 20), so that no u8 counter overflows: each is raised by one
\* from a value within its bound.
C38_DecoderInvariant ==
    /\ [](dpc = "any" =>
            /\ dec.is_running = drun
            /\ (dout # << >> /\ dout[1].kind = "Octet") => drun
            /\ dout = << DecodeError >> => ~drun
            /\ dec.bit < 8
            /\ dec.ones < 5
            /\ dec.empty_bits <= 20
            /\ dec.accum \in 0..255)
    /\ [][ /\ dout' = << DecodeError >> => drun
           /\ (dout' # << >> /\ dout'[1].kind = "Octet") => drun
           /\ (~drun /\ drun') => dout' = << FrameMarker >>
         ]_vars

\* a running decoder has met an unaligned marker: DecodeError has come out
\* and the decoder is hunting again
C38_Witness ==
    /\ dpc = "any"
    /\ dprev.is_running
    /\ dout = << DecodeError >>
    /\ ~dec.is_running
    /\ ~drun

(***************************************************************************)
(* Properties of a frame interrupted by a loss of carrier.                 *)
(***************************************************************************)
\* C39: a carrier-loss reset of HdlcDecode emits no signal to the
\* FrameCollector, so octets already accumulated for the interrupted frame
\* are kept and are delivered as a truncated frame at the next FrameMarker
\* instead of being discarded: through the gap the collector keeps what it
\* held and yields nothing, the first marker of the next frame (its first 8
\* bits) brings the kept octets out as a frame of their own, and the next
\* frame follows whole.
C39_TruncatedFrameKept ==
    /\ [](clpc \in {"gap", "second", "done"} =>
            /\ clkept = SubSeq(clB, 1, Len(clkept))
            /\ clpc = "gap" => (clframe = clkept /\ clframes = << >>)
            /\ (clpc = "gap" /\ clgap >= CARRIER_LOSS) => Cleared(cldec)
            /\ (clpc = "second" /\ clbits < 8) => (clframe = clkept /\ clframes = << >>)
            /\ (clpc = "second" /\ clbits >= 8 /\ clkept # << >>) =>
                  (clframes # << >> /\ clframes[1] = clkept)
            /\ clpc = "done" =>
                  clframes = (IF clkept # << >> THEN << clkept >> ELSE << >>)
                             \o << LossSecond >>)
    /\ [][ clpc = "gap" => (clframe' = clframe /\ clframes' = clframes) ]_vars

\* the carrier was lost after the first two octets of a three-octet frame;
\* the two octets have come out as a frame, and then the second frame
C39_Witness ==
    /\ clpc = "done"
    /\ clB = << 255, 126, 3 >>
    /\ clkept = << 255, 126 >>
    /\ clframes = << << 255, 126 >>, LossSecond >>

(***************************************************************************)
(* Properties of the two ways from a callsign to an EUI-64.                *)
(***************************************************************************)
\* the address in hand is a callsign that fits an EUI-48
SmallCallsign ==
    /\ aflow = "widen"
    /\ ah.status = "Ok"
    /\ HamAddr_get_type(ah.addr) = "Callsign"
    /\ is_small(ah.addr)

====
